---- MODULE Spec2Model ----
(***************************************************************************)
(* Bundle lifecycle of the hot-updater console: the RPC handlers of the    *)
(* console server (disable, soft delete, complete delete, object deletes), *)
(* the r2Storage plugin and the console's client wrappers, over a          *)
(* metadata store and an object store that fail independently.             *)
(*                                                                         *)
(* Strings the code inspects or builds (ids, object keys, error messages)  *)
(* are sequences of tokens, so that concatenation, prefix tests and the    *)
(* empty string are computed and not assumed.  A JSON body is a record     *)
(* that holds exactly the fields the code put in it.                       *)
(***************************************************************************)
EXTENDS Integers, Sequences, FiniteSets, TLC

VARIABLES
  configPromise,  \* prepareConfig's cached promise: "null", "pending", "resolved", "rejected"
  config,         \* the loaded configuration (meaningful once resolved)
  env,            \* process.env: which groups of Cloudflare settings are present
  db,             \* the metadata store: bundle id -> persisted record
  staged,         \* the database plugin's staged, uncommitted mutations
  objects,        \* the object store: the set of keys that hold a payload
  req,            \* the requests in flight, one per slot
  issued,         \* number of requests issued so far
  bulk,           \* the console page's bulk delete: handleBulkDelete and what it awaits
  fileSizeCache,  \* the api module's fileSizeCache: bundle id -> size, where recorded
  sizeCalls,      \* the getFileSizes calls in flight, one per caller
  page            \* the bundles table: the displayed rows and the selection

vars == <<configPromise, config, env, db, staged, objects, req, issued,
          bulk, fileSizeCache, sizeCalls, page>>

\* the state that lives in the browser
browserVars == <<bulk, fileSizeCache, sizeCalls, page>>

(***************************************************************************)
(* Bounds                                                                  *)
(***************************************************************************)
MaxRequests == 2
MaxKeys == 3
MaxSelected == 2
MaxSizeCalls == 3

Slots == {"r1", "r2"}

(***************************************************************************)
(* Ids, keys, messages                                                     *)
(***************************************************************************)
B1 == <<"b1">>
B10 == <<"b1", "0">>
BundleIds == {B1, B10}
Filenames == {"bundle.zip", "index.ios.bundle"}

Empty == [f \in {} |-> TRUE]

\* {...a, ...b}: the fields of b override those of a
Merge(a, b) ==
  [f \in (DOMAIN a) \cup (DOMAIN b) |-> IF f \in DOMAIN b THEN b[f] ELSE a[f]]

\* String.prototype.startsWith
StartsWith(s, p) == Len(p) <= Len(s) /\ SubSeq(s, 1, Len(p)) = p

\* String.prototype.includes, for a needle that is one token
Includes(s, tok) == \E i \in 1..Len(s) : s[i] = tok

\* a non-empty string is truthy
Truthy(s) == Len(s) > 0

\* [bundleId, filename].join("/")
UploadKey(bundleId, filename) == bundleId \o <<"/", filename>>

AllKeys == {UploadKey(i, f) : i \in BundleIds, f \in Filenames}

\* a thrown value: an Error with a message, or any other value with its String()
Err(text) == [isError |-> TRUE, text |-> text]
Thrown(text) == [isError |-> FALSE, text |-> text]

None == [some |-> FALSE]
Some(v) == [some |-> TRUE, val |-> v]

BundleNotFound == <<"Bundle Not Found">>
UnknownError == <<"Unknown error">>
FetchFailed == <<"Failed to fetch">>
MsgDeleted == <<"Bundle da duoc xoa thanh cong">>
MsgPartial == <<"Bundle da bi xoa khoi database nhung khong the xoa file tu storage">>
MsgDisabled == <<"Bundle da bi vo hieu hoa thanh cong">>
MsgWranglerMissing == <<"Wrangler CLI khong duoc tim thay">>

Ok == [ok |-> TRUE]
Fail(e) == [ok |-> FALSE, err |-> e]

(***************************************************************************)
(* The environment: what the backends can answer                           *)
(***************************************************************************)
\* the wrangler process of r2Storage: it exits 0, or execa rejects
WranglerOutcomes ==
  {Ok} \cup {Fail(Err(m)) : m \in {BundleNotFound,
                                   <<"Command failed with exit code 127", ": wrangler">>,
                                   <<"fetch failed">>}}

\* config.storage({cwd}) is the user's function: it may throw anything
FactoryErrors == {Err(<<>>), Err(BundleNotFound), Thrown(<<"storage init failed">>)}

ConfigError == Err(<<"Database plugin initialization failed">>)
UpdateError == Err(<<"update failed">>)
CommitError == Err(<<"commit failed">>)

PatchInputs == {[enabled |-> TRUE], [message |-> "m1"]}

(***************************************************************************)
(* r2Storage                                                               *)
(***************************************************************************)
\* the object `wrangler r2 object delete ${bucketName}/${bundleId}` names
R2DeleteTarget(bundleId) == bundleId

\* faulty variant: "not found" is rethrown like any other failure
R2StorageDeleteBundleStrict(bundleId, w) ==
  IF w.ok THEN Ok
  ELSE Fail(Err(<<"Failed to delete bundle ">> \o bundleId \o <<" from R2: ">> \o w.err.text))

\* deleteBundle's try/catch around the wrangler call
R2StorageDeleteBundle(bundleId, w) ==
  IF w.ok THEN Ok
  ELSE IF w.err.isError /\ w.err.text = BundleNotFound THEN Ok
  ELSE IF w.err.isError /\ (\/ Includes(w.err.text, "wrangler: command not found")
                            \/ Includes(w.err.text, "Command failed with exit code 127"))
       THEN Fail(Err(MsgWranglerMissing))
  ELSE Fail(Err(<<"Failed to delete bundle ">> \o bundleId \o <<" from R2: ">> \o w.err.text))

(***************************************************************************)
(* The database plugin (shared by every request through prepareConfig)     *)
(***************************************************************************)
NoStaged == [i \in BundleIds |-> Empty]

\* faulty variant: the update is not staged
StageUpdateDropped(st, id, partial) == st

\* updateBundle(id, partial): stages, persists nothing
StageUpdate(st, id, partial) == [st EXCEPT ![id] = Merge(@, partial)]

\* faulty variant: a staged mutation replaces the row
FlushReplacing(d, st) == [i \in BundleIds |-> IF st[i] = Empty THEN d[i] ELSE st[i]]

\* commitBundle(): flushes every staged mutation
Flush(d, st) == [i \in BundleIds |-> Merge(d[i], st[i])]

(***************************************************************************)
(* Requests                                                                *)
(***************************************************************************)
IdleReq ==
  [op |-> "idle", id |-> B1, pc |-> "idle", partial |-> Empty,
   storageError |-> None, keys |-> <<>>, calls |-> <<>>, backend |-> None,
   raced |-> FALSE, http |-> Empty, client |-> Empty,
   results |-> <<>>, successCount |-> 0, sent |-> <<>>]

\* the catch block shared by the PATCH, DELETE and disable handlers
OuterCatch(e) ==
  IF e.isError THEN [status |-> 500, body |-> [error |-> e.text]]
  ELSE [status |-> 500, body |-> [error |-> UnknownError]]

\* deleteBundle / disableBundle of the console's api module
SpreadWrapper(http, delivered) ==
  IF delivered THEN Merge([success |-> TRUE], http.body)
  ELSE [success |-> FALSE, error |-> FetchFailed]

\* completeDeleteBundle of the console's api module
PlainWrapper(http, delivered) ==
  IF delivered THEN http.body ELSE [success |-> FALSE, error |-> FetchFailed]

ClientResult(op, http, delivered) ==
  IF op \in {"delete", "disable"} THEN SpreadWrapper(http, delivered)
  ELSE IF op = "complete" THEN PlainWrapper(http, delivered)
  ELSE IF delivered THEN http.body ELSE Empty

Respond(r, http, delivered) ==
  [r EXCEPT !.pc = "done", !.http = http, !.client = ClientResult(r.op, http, delivered)]

\* faulty variant: a load that failed is started again by the next request
PrepareConfigRetries ==
  IF configPromise \in {"null", "rejected"} THEN "pending" ELSE configPromise

\* the synchronous part of prepareConfig
PrepareConfig == IF configPromise = "null" THEN "pending" ELSE configPromise

NewRequest(s, op, id, partial) ==
  /\ req[s].pc \in {"idle", "done"}
  /\ issued < MaxRequests
  /\ issued' = issued + 1
  /\ req' = [req EXCEPT ![s] = [IdleReq EXCEPT !.op = op, !.id = id,
                                               !.partial = partial, !.pc = "config"]]
  /\ configPromise' = PrepareConfig
  /\ UNCHANGED <<browserVars, config, env, db, staged, objects>>

\* loadConfig and the database factory settle the cached promise
ConfigResolves ==
  /\ configPromise = "pending"
  /\ configPromise' = "resolved"
  /\ \E st \in {"none", "r2"} : config' = [storage |-> st]
  /\ UNCHANGED <<browserVars, env, db, staged, objects, req, issued>>

ConfigRejects ==
  /\ configPromise = "pending"
  /\ configPromise' = "rejected"
  /\ UNCHANGED <<browserVars, config, env, db, staged, objects, req, issued>>

\* the catch block of the complete-delete handler
CompleteCatch(e) == [status |-> 500, body |-> [success |-> FALSE, error |-> e.text]]

\* faulty variant: the exception leaves the handler
HandlerRethrows(op, e) == [status |-> 500, body |-> e]

HandlerCatch(op, e) == IF op = "complete" THEN CompleteCatch(e) ELSE OuterCatch(e)

\* await prepareConfig() throws into the handler's outer catch
ConfigFailure(s) ==
  /\ req[s].pc = "config"
  /\ configPromise = "rejected"
  /\ \E delivered \in BOOLEAN :
       req' = [req EXCEPT ![s] = Respond(@, HandlerCatch(req[s].op, ConfigError), delivered)]
  /\ UNCHANGED <<browserVars, configPromise, config, env, db, staged, objects, issued>>

(***************************************************************************)
(* DELETE /bundles/:bundleId (soft delete)                                 *)
(***************************************************************************)
\* faulty variant: "not found" is kept like any other error
CaptureEveryStorageError(e) == Some(e.text)

\* the catch of the storage try block
CaptureStorageError(e) ==
  IF e.isError /\ e.text = BundleNotFound THEN None ELSE Some(e.text)

\* the calls a step issued, with "throw" after one that threw
Logged(made, outcome) == IF outcome.ok THEN made ELSE made \o <<"throw">>

\* faulty variant: a storage error ends the request before the metadata is touched
AfterStorageOrGiveUp(r, outcome, made, raw) ==
  IF outcome.ok
  THEN [r EXCEPT !.calls = @ \o made, !.backend = raw, !.pc = "update"]
  ELSE Respond([r EXCEPT !.calls = @ \o Logged(made, outcome), !.backend = raw],
               OuterCatch(outcome.err), TRUE)

\* after the storage block: on to updateBundle, whatever happened;
\* raw is what the environment answered, outcome what the handler saw
AfterStorage(r, outcome, made, raw) ==
  [r EXCEPT !.storageError = IF outcome.ok THEN None ELSE CaptureStorageError(outcome.err),
            !.calls = @ \o Logged(made, outcome),
            !.backend = raw,
            !.pc = "update"]

\* faulty variant: a metadata failure is reported like a storage failure
SoftDeleteDbCatchAsPartial(e) ==
  [status |-> 200,
   body |-> [success |-> TRUE, partialSuccess |-> TRUE, storageError |-> e.text,
             message |-> MsgPartial]]

SoftDeleteDbCatch(e) == [status |-> 500, body |-> [success |-> FALSE, error |-> e.text]]

SoftDeleteResult(storageError) ==
  IF storageError.some /\ Truthy(storageError.val)
  THEN [status |-> 200,
        body |-> [success |-> TRUE, partialSuccess |-> TRUE,
                  storageError |-> storageError.val, message |-> MsgPartial]]
  ELSE [status |-> 200, body |-> [success |-> TRUE, message |-> MsgDeleted]]

SoftDeleteStart(s) ==
  \E id \in BundleIds : NewRequest(s, "delete", id, Empty)

SoftDeleteNoStorage(s) ==
  /\ req[s].op = "delete" /\ req[s].pc = "config"
  /\ configPromise = "resolved" /\ config.storage = "none"
  /\ req' = [req EXCEPT ![s] = AfterStorage(@, Ok, <<>>, None)]
  /\ UNCHANGED <<browserVars, configPromise, config, env, db, staged, objects, issued>>

SoftDeleteFactoryThrows(s) ==
  /\ req[s].op = "delete" /\ req[s].pc = "config"
  /\ configPromise = "resolved" /\ config.storage = "r2"
  /\ \E e \in FactoryErrors :
       req' = [req EXCEPT ![s] = AfterStorage(@, Fail(e), <<"storage.factory">>,
                                    Some([call |-> "factory", res |-> Fail(e)]))]
  /\ UNCHANGED <<browserVars, configPromise, config, env, db, staged, objects, issued>>

SoftDeleteStorage(s) ==
  /\ req[s].op = "delete" /\ req[s].pc = "config"
  /\ configPromise = "resolved" /\ config.storage = "r2"
  /\ \E w \in WranglerOutcomes :
       /\ objects' = IF w.ok THEN objects \ {R2DeleteTarget(req[s].id)} ELSE objects
       /\ req' = [req EXCEPT ![s] =
                    AfterStorage(@, R2StorageDeleteBundle(req[s].id, w),
                                 <<"storage.factory", "storage.deleteBundle">>,
                                 Some([call |-> "wrangler", res |-> w]))]
  /\ UNCHANGED <<browserVars, configPromise, config, env, db, staged, issued>>

\* a re-enabling PATCH staged between another request's update and commit
\* overwrites that request's staged enabled=false (last writer wins)
MarkRaced(rq, s, id, partial) ==
  [t \in Slots |->
     IF /\ t # s /\ rq[t].id = id /\ rq[t].pc = "commit"
        /\ "enabled" \in DOMAIN partial /\ partial.enabled
     THEN [rq[t] EXCEPT !.raced = TRUE] ELSE rq[t]]

UpdateOk(s, partial) ==
  /\ staged' = StageUpdate(staged, req[s].id, partial)
  /\ req' = [MarkRaced(req, s, req[s].id, partial) EXCEPT
               ![s] = [@ EXCEPT !.pc = "commit", !.calls = @ \o <<"db.updateBundle">>]]
  /\ UNCHANGED <<browserVars, configPromise, config, env, db, objects, issued>>

UpdateThrows(s, http) ==
  /\ \E delivered \in BOOLEAN :
       req' = [req EXCEPT ![s] =
                 Respond([@ EXCEPT !.calls = @ \o <<"db.updateBundle", "throw">>], http, delivered)]
  /\ UNCHANGED <<browserVars, configPromise, config, env, db, staged, objects, issued>>

\* faulty variant: the handler answers without calling commitBundle
AnswerWithoutCommit(s, http) ==
  /\ \E delivered \in BOOLEAN :
       req' = [req EXCEPT ![s] = Respond(@, http, delivered)]
  /\ UNCHANGED <<browserVars, configPromise, config, env, db, staged, objects, issued>>

CommitOk(s, http) ==
  /\ db' = Flush(db, staged)
  /\ staged' = NoStaged
  /\ \E delivered \in BOOLEAN :
       req' = [req EXCEPT ![s] =
                 Respond([@ EXCEPT !.calls = @ \o <<"db.commitBundle">>], http, delivered)]
  /\ UNCHANGED <<browserVars, configPromise, config, env, objects, issued>>

CommitThrows(s, http) ==
  /\ \E delivered \in BOOLEAN :
       req' = [req EXCEPT ![s] =
                 Respond([@ EXCEPT !.calls = @ \o <<"db.commitBundle", "throw">>], http, delivered)]
  /\ UNCHANGED <<browserVars, configPromise, config, env, db, staged, objects, issued>>

SoftDeleteUpdate(s) ==
  /\ req[s].op = "delete" /\ req[s].pc = "update"
  /\ \/ UpdateOk(s, [enabled |-> FALSE])
     \/ UpdateThrows(s, SoftDeleteDbCatch(UpdateError))

SoftDeleteCommit(s) ==
  /\ req[s].op = "delete" /\ req[s].pc = "commit"
  /\ \/ CommitOk(s, SoftDeleteResult(req[s].storageError))
     \/ CommitThrows(s, SoftDeleteDbCatch(CommitError))

(***************************************************************************)
(* POST /bundles/:bundleId/disable                                         *)
(***************************************************************************)
DisableResult == [status |-> 200, body |-> [success |-> TRUE, message |-> MsgDisabled]]

DisableStart(s) ==
  \E id \in BundleIds : NewRequest(s, "disable", id, Empty)

DisableUpdate(s) ==
  /\ req[s].op = "disable" /\ req[s].pc = "config"
  /\ configPromise = "resolved"
  /\ \/ UpdateOk(s, [enabled |-> FALSE])
     \/ UpdateThrows(s, OuterCatch(UpdateError))

DisableCommit(s) ==
  /\ req[s].op = "disable" /\ req[s].pc = "commit"
  /\ \/ CommitOk(s, DisableResult)
     \/ CommitThrows(s, OuterCatch(CommitError))

(***************************************************************************)
(* PATCH /bundles/:bundleId                                                *)
(***************************************************************************)
PatchResult == [status |-> 200, body |-> [success |-> TRUE]]

PatchStart(s) ==
  \E id \in BundleIds, p \in PatchInputs : NewRequest(s, "patch", id, p)

PatchUpdate(s) ==
  /\ req[s].op = "patch" /\ req[s].pc = "config"
  /\ configPromise = "resolved"
  /\ \/ UpdateOk(s, req[s].partial)
     \/ UpdateThrows(s, OuterCatch(UpdateError))

PatchCommit(s) ==
  /\ req[s].op = "patch" /\ req[s].pc = "commit"
  /\ \/ CommitOk(s, PatchResult)
     \/ CommitThrows(s, OuterCatch(CommitError))

(***************************************************************************)
(* The Cloudflare REST API, as the handlers use it through fetch           *)
(***************************************************************************)
NetworkDown == [status |-> "network"]

\* DELETE .../objects/{key}: the object is removed on 200; an absent key is
\* answered 200 or 404, as the backend chooses
CfDeleteAnswers(present) ==
  {[status |-> "200"],
   [status |-> "503", json |-> None],
   NetworkDown}
  \cup (IF present THEN {}
        ELSE {[status |-> "404", json |-> Some(<<"The specified key does not exist">>)]})

CfDeleteEffect(objs, key, ans) == IF ans.status = "200" THEN objs \ {key} ELSE objs

\* the pages a listing of the keys K can start with: all of K, or a
\* truncated first page that comes with a cursor for the rest
CfPages(K) ==
  {[keys |-> K, truncated |-> FALSE]}
  \cup {[keys |-> P, truncated |-> TRUE] : P \in (SUBSET K) \ {{}, K}}

\* GET .../objects?prefix=p: the keys that start with p, either as
\* result.objects or as the result array itself
CfListAnswers(objs, prefix) ==
  {[status |-> "200", shape |-> sh, keys |-> pg.keys, truncated |-> pg.truncated] :
     sh \in {"objects", "array"}, pg \in CfPages({k \in objs : StartsWith(k, prefix)})}
  \cup {[status |-> "503"], NetworkDown}

Range(q) == {q[k] : k \in 1..Len(q)}
ArrayOf(S) == CHOOSE q \in [1..Cardinality(S) -> S] : Range(q) = S

MsgMissingR2 == <<"Thieu thong tin cau hinh Cloudflare R2">>
MsgMissingCf == <<"Thieu thong tin cau hinh Cloudflare">>
MsgNoKey == <<"Key khong duoc cung cap">>
MsgBadKeys == <<"Danh sach keys khong hop le hoac trong">>
NetworkError == <<"fetch failed">>

(***************************************************************************)
(* POST /r2/delete/:bundleId and DELETE /r2/object                         *)
(***************************************************************************)
\* `${bundleId}/bundle.zip`
DefaultObjectKey(bundleId) == bundleId \o <<"/", "bundle.zip">>

R2DeleteResponse(bundleId, ans) ==
  IF ans.status = "network"
  THEN [status |-> 500, body |-> [success |-> FALSE, error |-> NetworkError]]
  ELSE IF ans.status = "200"
  THEN [status |-> 200,
        body |-> [success |-> TRUE,
                  message |-> <<"Da xoa bundle ">> \o bundleId \o <<" thanh cong tu R2 storage">>]]
  ELSE [status |-> 200,
        body |-> [success |-> FALSE,
                  error |-> IF ans.json.some THEN <<"Loi R2: ">> \o ans.json.val
                            ELSE <<"Loi khi xoa tu R2: ", ans.status>>]]

R2ObjectResponse(ans) ==
  IF ans.status = "network"
  THEN [status |-> 500, body |-> [success |-> FALSE, error |-> NetworkError]]
  ELSE IF ans.status = "200"
  THEN [status |-> 200, body |-> [success |-> TRUE]]
  ELSE [status |-> 500,
        body |-> [success |-> FALSE,
                  error |-> IF ans.json.some THEN ans.json.val
                            ELSE <<"Failed to delete R2 object: ", ans.status>>]]

\* a handler that answers in one step: the request and its only backend call
OneStep(s, op, id, made, raw, http) ==
  /\ req[s].pc \in {"idle", "done"}
  /\ issued < MaxRequests
  /\ issued' = issued + 1
  /\ \E delivered \in BOOLEAN :
       req' = [req EXCEPT ![s] =
                 Respond([IdleReq EXCEPT !.op = op, !.id = id, !.calls = made,
                                         !.backend = raw], http, delivered)]
  /\ UNCHANGED <<browserVars, configPromise, config, env, db, staged>>

R2DeleteMissingConfig(s) ==
  /\ ~env.r2
  /\ \E id \in BundleIds :
       OneStep(s, "r2delete", id, <<>>, None,
               [status |-> 400, body |-> [success |-> FALSE, error |-> MsgMissingR2]])
  /\ UNCHANGED objects

R2Delete(s) ==
  /\ env.r2
  /\ \E id \in BundleIds :
       LET key == DefaultObjectKey(id) IN
       \E ans \in CfDeleteAnswers(key \in objects) :
         /\ objects' = CfDeleteEffect(objects, key, ans)
         /\ OneStep(s, "r2delete", id, Logged(<<"cf.delete">>, [ok |-> ans.status # "network"]),
                    Some([call |-> "cf.delete", key |-> key, res |-> ans]),
                    R2DeleteResponse(id, ans))

\* the body's key: an object key, or none
R2ObjectRejected(s) ==
  /\ \/ OneStep(s, "r2object", B1, <<>>, None,
                [status |-> 400, body |-> [success |-> FALSE, error |-> MsgNoKey]])
     \/ /\ ~env.r2
        /\ OneStep(s, "r2object", B1, <<>>, None,
                   [status |-> 400, body |-> [success |-> FALSE, error |-> MsgMissingCf]])
  /\ UNCHANGED objects

R2Object(s) ==
  /\ env.r2
  /\ \E key \in AllKeys :
       \E ans \in CfDeleteAnswers(key \in objects) :
         /\ objects' = CfDeleteEffect(objects, key, ans)
         /\ OneStep(s, "r2object", B1, Logged(<<"cf.delete">>, [ok |-> ans.status # "network"]),
                    Some([call |-> "cf.delete", key |-> key, res |-> ans]),
                    R2ObjectResponse(ans))

(***************************************************************************)
(* DELETE /r2/objects                                                      *)
(***************************************************************************)
\* !keys || !Array.isArray(keys) || keys.length === 0
R2ObjectsRejects(body) == IF body.isArray THEN Len(body.items) = 0 ELSE TRUE

R2ObjectsRejection == [status |-> 400, body |-> [success |-> FALSE, error |-> MsgBadKeys]]

\* the keys a caller may send: object keys, repeated or not
KeyInputs == {DefaultObjectKey(i) : i \in BundleIds}

KeyLists == UNION {[1..n -> KeyInputs] : n \in 0..MaxKeys}

\* a JSON array of keys, or an object that wraps one
BulkBodies ==
  {[isArray |-> TRUE, items |-> q] : q \in KeyLists}
  \cup {[isArray |-> FALSE, fields |-> [keys |-> <<DefaultObjectKey(B1)>>]]}

\* the handler up to its loop: the body is validated, then the settings
R2ObjectsBegin(body, envr2) ==
  LET r == [IdleReq EXCEPT !.op = "r2objects"] IN
  IF R2ObjectsRejects(body) THEN Respond(r, R2ObjectsRejection, TRUE)
  ELSE IF ~envr2
  THEN Respond([r EXCEPT !.keys = body.items],
               [status |-> 500, body |-> [success |-> FALSE, error |-> MsgMissingR2]],
               TRUE)
  ELSE [r EXCEPT !.keys = body.items, !.pc = "loop"]

\* what the loop pushes for one key
R2ObjectsEntry(key, ans) ==
  IF ans.status = "200" THEN [key |-> key, success |-> TRUE]
  ELSE IF ans.status = "network" THEN [key |-> key, success |-> FALSE, error |-> NetworkError]
  ELSE [key |-> key, success |-> FALSE,
        error |-> IF ans.json.some THEN ans.json.val ELSE <<ans.status>>]

R2ObjectsResponse(r) ==
  [status |-> 200,
   body |-> [success |-> r.successCount > 0,
             totalObjects |-> Len(r.keys),
             deletedObjects |-> r.successCount,
             results |-> r.results]]

\* faulty variant: a key that failed ends the loop
R2ObjectsLoopEndsOnFailure(r) ==
  Len(r.results) = Len(r.keys) \/ ~r.results[Len(r.results)].success

\* for (const key of keys): the loop is over after the last key
R2ObjectsLoopEnds(r) == Len(r.results) = Len(r.keys)

R2ObjectsStart(s) ==
  /\ req[s].pc \in {"idle", "done"}
  /\ \E body \in BulkBodies :
       req' = [req EXCEPT ![s] = R2ObjectsBegin(body, env.r2)]
  /\ UNCHANGED <<browserVars, configPromise, config, env, db, staged, objects, issued>>

\* one turn of the loop, and the response after the last one
R2ObjectsStep(s) ==
  /\ req[s].op = "r2objects" /\ req[s].pc = "loop"
  /\ LET key == req[s].keys[Len(req[s].results) + 1] IN
     \E ans \in CfDeleteAnswers(key \in objects) :
       LET r == [req[s] EXCEPT
                   !.results = Append(@, R2ObjectsEntry(key, ans)),
                   !.successCount = IF ans.status = "200" THEN @ + 1 ELSE @,
                   !.sent = Append(@, key),
                   !.calls = @ \o Logged(<<"cf.delete">>, [ok |-> ans.status # "network"])]
       IN
       /\ objects' = CfDeleteEffect(objects, key, ans)
       /\ req' = [req EXCEPT ![s] = IF R2ObjectsLoopEnds(r)
                                     THEN Respond(r, R2ObjectsResponse(r), TRUE)
                                     ELSE r]
  /\ UNCHANGED <<browserVars, configPromise, config, env, db, staged, issued>>

(***************************************************************************)
(* POST /bundles/:bundleId/complete-delete                                 *)
(***************************************************************************)
Undefined == "undefined"

\* obj.field of a parsed JSON body
Field(obj, f) == IF f \in DOMAIN obj THEN obj[f] ELSE Undefined

MsgCompleteSkipped ==
  <<"Bundle da bi vo hieu hoa trong database, nhung khong the xoa tu R2 do thieu cau hinh">>
MsgCompleteNoList ==
  <<"Bundle da bi vo hieu hoa trong database, nhung khong the liet ke file trong R2: ">>
MsgCompleteNothing ==
  <<"Bundle da bi vo hieu hoa trong database, khong co file R2 can xoa">>

CompleteResult(deleteResult) ==
  [status |-> 200,
   body |-> [success |-> TRUE,
             message |-> <<"Bundle da bi vo hieu hoa trong database, ",
                           Field(deleteResult, "deletedObjects"), "/",
                           Field(deleteResult, "totalObjects"),
                           " file da bi xoa tu R2">>,
             r2Result |-> deleteResult]]

\* data.result?.objects || []
ListedObjects(ans) == IF ans.shape = "objects" THEN ans.keys ELSE {}

\* JSON.stringify({ keys: objectKeys }): an object, not an array
CompleteBulkBody(objectKeys) == [isArray |-> FALSE, fields |-> [keys |-> objectKeys]]

\* faulty variant: missing storage settings fail the whole request
CompleteSkippedAsFailure ==
  [status |-> 500, body |-> [success |-> FALSE, error |-> MsgMissingR2]]

\* the answer when the storage settings are missing
CompleteSkipped ==
  [status |-> 200, body |-> [success |-> TRUE, message |-> MsgCompleteSkipped]]

CompleteStart(s) ==
  \E id \in BundleIds : NewRequest(s, "complete", id, Empty)

CompleteUpdate(s) ==
  /\ req[s].op = "complete" /\ req[s].pc = "config"
  /\ configPromise = "resolved"
  /\ \/ UpdateOk(s, [enabled |-> FALSE])
     \/ UpdateThrows(s, CompleteCatch(UpdateError))

CompleteCommit(s) ==
  /\ req[s].op = "complete" /\ req[s].pc = "commit"
  /\ \/ CommitThrows(s, CompleteCatch(CommitError))
     \/ /\ ~env.r2
        /\ CommitOk(s, CompleteSkipped)
     \/ /\ env.r2
        /\ db' = Flush(db, staged)
        /\ staged' = NoStaged
        /\ req' = [req EXCEPT ![s] = [@ EXCEPT !.calls = @ \o <<"db.commitBundle">>,
                                               !.pc = "list"]]
        /\ UNCHANGED <<browserVars, configPromise, config, env, objects, issued>>

CompleteList(s) ==
  /\ req[s].op = "complete" /\ req[s].pc = "list"
  /\ \E ans \in CfListAnswers(objects, req[s].id) :
       LET r == [req[s] EXCEPT
                   !.calls = @ \o Logged(<<"cf.list">>, [ok |-> ans.status # "network"]),
                   !.backend = Some([call |-> "cf.list", res |-> ans])]
       IN
       \/ /\ ans.status = "network"
          /\ \E delivered \in BOOLEAN :
               req' = [req EXCEPT ![s] = Respond(r, CompleteCatch(Err(NetworkError)), delivered)]
       \/ /\ ans.status \notin {"network", "200"}
          /\ \E delivered \in BOOLEAN :
               req' = [req EXCEPT ![s] =
                         Respond(r, [status |-> 200,
                                     body |-> [success |-> TRUE,
                                               message |-> MsgCompleteNoList \o <<ans.status>>]],
                                 delivered)]
       \/ /\ ans.status = "200" /\ ListedObjects(ans) = {}
          /\ \E delivered \in BOOLEAN :
               req' = [req EXCEPT ![s] =
                         Respond(r, [status |-> 200,
                                     body |-> [success |-> TRUE,
                                               message |-> MsgCompleteNothing]],
                                 delivered)]
       \/ /\ ans.status = "200" /\ ListedObjects(ans) # {}
          /\ req' = [req EXCEPT ![s] = [r EXCEPT !.keys = ArrayOf(ListedObjects(ans)),
                                                 !.pc = "bulk"]]
  /\ UNCHANGED <<browserVars, configPromise, config, env, db, staged, objects, issued>>

\* fetch("/rpc/r2/objects", {method: "DELETE", body: {keys}}): node-fetch
\* rejects the relative URL, or the request reaches the console's own handler
CompleteBulk(s) ==
  /\ req[s].op = "complete" /\ req[s].pc = "bulk"
  /\ \/ \E delivered \in BOOLEAN :
          req' = [req EXCEPT ![s] =
                    Respond([@ EXCEPT !.calls = @ \o <<"rpc.r2.objects", "throw">>],
                            CompleteCatch(Err(<<"Only absolute URLs are supported">>)),
                            delivered)]
     \/ /\ R2ObjectsRejects(CompleteBulkBody(req[s].keys))
        /\ \E delivered \in BOOLEAN :
             req' = [req EXCEPT ![s] =
                       Respond([@ EXCEPT !.calls = @ \o <<"rpc.r2.objects">>],
                               CompleteResult(R2ObjectsRejection.body), delivered)]
  /\ UNCHANGED <<browserVars, configPromise, config, env, db, staged, objects, issued>>

(***************************************************************************)
(* The console page: bulk delete                                           *)
(***************************************************************************)
\* a deleted row of the bundles table
Absent == [deleted |-> TRUE]

Selections == UNION {[1..n -> BundleIds] : n \in 0..MaxSelected}

BulkEnvs == [r2 : BOOLEAN, d1 : BOOLEAN]

\* what the D1 query endpoint answers to the DELETE statement
D1Answers == {"200", "500", "network"}

\* POST /bundles/:bundleId/delete-d1
DeleteD1Response(envd1, ans) ==
  IF ~envd1
  THEN [status |-> 400,
        body |-> [success |-> FALSE, error |-> <<"Thieu thong tin cau hinh Cloudflare D1">>]]
  ELSE IF ans = "200"
  THEN [status |-> 200,
        body |-> [success |-> TRUE,
                  message |-> <<"Bundle da duoc xoa hoan toan khoi D1 database">>]]
  ELSE IF ans = "network"
  THEN [status |-> 500, body |-> [success |-> FALSE, error |-> NetworkError]]
  ELSE [status |-> 500,
        body |-> [success |-> FALSE, error |-> <<"Khong the xoa bundle tu D1: ", ans>>]]

DeleteD1Effect(d, id, envd1, ans) ==
  IF envd1 /\ ans = "200" THEN [d EXCEPT ![id] = Absent] ELSE d

\* POST /r2/delete/:bundleId, both of its paths
R2DeleteHandler(envr2, id, ans) ==
  IF envr2 THEN R2DeleteResponse(id, ans)
  ELSE [status |-> 400, body |-> [success |-> FALSE, error |-> MsgMissingR2]]

\* handleBulkDelete and the calls it awaits; said records, per item, what
\* the two per-item requests answered to the browser; direct names the api
\* function when it was called without handleBulkDelete
IdleBulk ==
  [pc |-> "idle", selected |-> <<>>, isDeleting |-> FALSE,
   details |-> <<>>, success |-> TRUE, d1Success |-> 0, r2Success |-> 0,
   d1Result |-> Empty, r1Result |-> Empty, r2Result |-> Empty,
   inflight |-> {}, order |-> <<>>, perItem |-> <<>>, said |-> <<>>,
   toast |-> "none", direct |-> "none"]

\* obj.f as a value that may be undefined, and its truthiness
Opt(obj, f) == IF f \in DOMAIN obj THEN Some(obj[f]) ELSE None
OptTrue(o) == IF o.some THEN o.val ELSE FALSE

\* deleteD1Bundle's catch block
DeleteD1BundleCaught == [success |-> Some(FALSE), error |-> FetchFailed]

\* deleteD1Bundle's return value when both responses were parsed:
\* success is d1Result.success && r2Result.success
DeleteD1BundleResult(d1Result, r2Result) ==
  [success |-> IF OptTrue(Opt(d1Result, "success")) THEN Opt(r2Result, "success")
               ELSE Opt(d1Result, "success"),
   d1Result |-> d1Result, r2Result |-> r2Result]

\* result.d1Result?.success
ItemD1Success(result) ==
  IF "d1Result" \in DOMAIN result THEN Opt(result.d1Result, "success") ELSE None

\* result.r2Result?.success || result.r2Result?.partialSuccess
ItemR2Success(result) ==
  IF "r2Result" \in DOMAIN result
  THEN IF OptTrue(Opt(result.r2Result, "success")) THEN Some(TRUE)
       ELSE Opt(result.r2Result, "partialSuccess")
  ELSE None

\* faulty variant: an item that failed leaves no entry
PushDetailOnSuccessOnly(details, id, result) ==
  IF OptTrue(result.success)
  THEN Append(details, [bundleId |-> id, success |-> result.success,
                        d1Success |-> ItemD1Success(result),
                        r2Success |-> ItemR2Success(result)])
  ELSE details

\* results.push({bundleId, success, d1Success, r2Success})
PushDetail(details, id, result) ==
  Append(details, [bundleId |-> id, success |-> result.success,
                   d1Success |-> ItemD1Success(result),
                   r2Success |-> ItemR2Success(result)])

\* bulkDeleteBundles' return value
BulkDeleteBundlesResult(b) ==
  [success |-> b.success \/ b.d1Success > 0, details |-> b.details]

\* the loop body after deleteD1Bundle returned, and what follows the loop:
\* the next item's first request, or the batched call of handleBulkDelete
BulkAfterItem(b, result, heard) ==
  LET id == b.selected[Len(b.said) + 1]
      b1 == [b EXCEPT
               !.details = PushDetail(@, id, result),
               !.d1Success = IF OptTrue(ItemD1Success(result)) THEN @ + 1 ELSE @,
               !.r2Success = IF OptTrue(ItemR2Success(result)) THEN @ + 1 ELSE @,
               !.success = IF OptTrue(result.success) THEN @ ELSE FALSE,
               !.said = Append(@, heard),
               !.d1Result = Empty]
  IN
  IF Len(b1.said) < Len(b.selected)
  THEN [b1 EXCEPT !.pc = "d1", !.inflight = {"d1"},
                  !.order = Append(@, <<"d1", Len(b1.said) + 1>>)]
  ELSE IF b.direct # "none"
  THEN [b1 EXCEPT !.pc = "done", !.inflight = {},
                  !.r1Result = BulkDeleteBundlesResult(b1)]
  ELSE [b1 EXCEPT !.pc = "batch", !.inflight = {"batch"},
                  !.r1Result = BulkDeleteBundlesResult(b1)]

\* selected.map((id) => `${id}/bundle.zip`)
BundleKeys(selected) == [k \in 1..Len(selected) |-> DefaultObjectKey(selected[k])]

\* the request of bulkDeleteFromR2 arrives at DELETE /r2/objects
BatchArrives(b) ==
  IF b.pc = "batch"
  THEN [req EXCEPT !["r1"] =
          R2ObjectsBegin([isArray |-> TRUE, items |-> BundleKeys(b.selected)], env.r2)]
  ELSE req

\* the createSignal calls of the table: nothing displayed yet, nothing selected
IdlePage == [bundlesData |-> <<>>, selectedRows |-> <<>>, reloadPending |-> FALSE]

\* handleBulkDelete up to its first await
BulkStart(selected, confirmed) ==
  IF Len(selected) = 0 THEN [IdleBulk EXCEPT !.pc = "done", !.toast = "error"]
  ELSE IF ~confirmed THEN [IdleBulk EXCEPT !.pc = "done", !.selected = selected]
  ELSE [IdleBulk EXCEPT !.pc = "d1", !.selected = selected,
                        !.isDeleting = TRUE,
                        !.inflight = {"d1"}, !.order = <<<<"d1", 1>>>>]

HandleBulkDelete ==
  /\ bulk.pc = "idle"
  /\ \E selected \in Selections, confirmed \in BOOLEAN :
       bulk' = BulkStart(selected, confirmed)
  /\ UNCHANGED <<configPromise, config, env, db, staged, objects, req, issued,
                 fileSizeCache, sizeCalls, page>>

\* deleteD1Bundle: the answer to /rpc/bundles/{id}/delete-d1, or no answer
BulkD1Answer ==
  /\ bulk.pc = "d1"
  /\ LET id == bulk.selected[Len(bulk.said) + 1] IN
     \E ans \in D1Answers, delivered \in BOOLEAN :
       LET http == DeleteD1Response(env.d1, ans) IN
       /\ db' = DeleteD1Effect(db, id, env.d1, ans)
       /\ bulk' = IF delivered
                  THEN [bulk EXCEPT !.pc = "r2", !.d1Result = http.body,
                                    !.inflight = {"r2"},
                                    !.order = Append(@, <<"r2", Len(bulk.said) + 1>>)]
                  ELSE BulkAfterItem(bulk, DeleteD1BundleCaught,
                                     [d1 |-> FALSE, r2 |-> FALSE])
       /\ req' = BatchArrives(bulk')
  /\ UNCHANGED <<configPromise, config, env, staged, objects, issued,
                 fileSizeCache, sizeCalls, page>>

\* deleteD1Bundle: the answer to /rpc/r2/delete/{id}, or no answer
BulkR2Answer ==
  /\ bulk.pc = "r2"
  /\ LET id == bulk.selected[Len(bulk.said) + 1]
         key == DefaultObjectKey(id)
     IN
     \E ans \in CfDeleteAnswers(key \in objects), delivered \in BOOLEAN :
       LET http == R2DeleteHandler(env.r2, id, ans)
           b == [bulk EXCEPT !.perItem = IF env.r2 THEN Append(@, key) ELSE @]
           d1Said == OptTrue(Opt(bulk.d1Result, "success"))
       IN
       /\ objects' = IF env.r2 THEN CfDeleteEffect(objects, key, ans) ELSE objects
       /\ bulk' = IF delivered
                  THEN BulkAfterItem(b, DeleteD1BundleResult(bulk.d1Result, http.body),
                                     [d1 |-> d1Said, r2 |-> http.body.success])
                  ELSE BulkAfterItem(b, DeleteD1BundleCaught,
                                     [d1 |-> d1Said, r2 |-> FALSE])
       /\ req' = BatchArrives(bulk')
  /\ UNCHANGED <<configPromise, config, env, db, staged, issued,
                 fileSizeCache, sizeCalls, page>>

\* bulkDeleteFromR2's return value
BulkDeleteFromR2Result(http, delivered) ==
  IF ~delivered THEN [success |-> FALSE, error |-> FetchFailed]
  ELSE IF http.status # 200
  THEN [success |-> FALSE, error |-> <<"Loi khi goi API: ", http.status>>]
  ELSE http.body

\* the batched call returned: handleBulkDelete reports and releases the flag
BulkBatchAnswer ==
  /\ bulk.pc = "batch"
  /\ req["r1"].pc = "done"
  /\ \E delivered \in BOOLEAN :
       LET r2Result == BulkDeleteFromR2Result(req["r1"].http, delivered) IN
       bulk' = [bulk EXCEPT
                  !.pc = "done", !.inflight = {}, !.isDeleting = FALSE,
                  !.r2Result = r2Result,
                  !.toast = IF bulk.direct # "none" THEN "none"
                            ELSE IF bulk.r1Result.success \/ r2Result.success
                            THEN "success" ELSE "error"]
  /\ page' = IF bulk'.toast = "success"
             THEN [page EXCEPT !.selectedRows = <<>>, !.reloadPending = TRUE]
             ELSE page
  /\ UNCHANGED <<configPromise, config, env, db, staged, objects, req, issued,
                 fileSizeCache, sizeCalls>>

(***************************************************************************)
(* The console page: the bundles table and its selection                   *)
(***************************************************************************)
\* selected.includes(rowId)
RowSelected(selected, rowId) == \E k \in 1..Len(selected) : selected[k] = rowId

\* selected.filter((id) => id !== rowId)
RECURSIVE Without(_, _)
Without(selected, rowId) ==
  IF selected = <<>> THEN <<>>
  ELSE IF Head(selected) = rowId THEN Without(Tail(selected), rowId)
  ELSE <<Head(selected)>> \o Without(Tail(selected), rowId)

\* what the bundles query can put on display: rows of the metadata store,
\* each once, newest id first, narrowed by the filters and the page
DisplayLists ==
  {q \in UNION {[1..n -> {i \in BundleIds : db[i] # Absent}] : n \in 0..Cardinality(BundleIds)} :
     \A j, k \in 1..Len(q) : j < k => Len(q[j]) > Len(q[k])}

\* the header checkbox's checked attribute
HeaderChecked ==
  Len(page.selectedRows) = Len(page.bundlesData) /\ Len(page.bundlesData) > 0

\* faulty variant: the button ignores the busy flag
BulkButtonAlwaysEnabled == Len(page.selectedRows) > 0

\* the toolbar shows the delete button while something is selected, and
\* disables it while isDeleting
BulkButtonEnabled == Len(page.selectedRows) > 0 /\ ~bulk.isDeleting

\* faulty variant: the selection is narrowed to the rows on display
KeepDisplayed(selected, data) ==
  SelectSeq(selected, LAMBDA id : RowSelected(data, id))

\* a change of bundlesData leaves the selectedRows signal as it is
KeepSelection(selected, data) == selected

\* the click on a displayed row's checkbox
ToggleRowSelection ==
  /\ \E k \in 1..Len(page.bundlesData) :
       LET rowId == page.bundlesData[k]
           selected == page.selectedRows
       IN page' = [page EXCEPT !.selectedRows =
                     IF RowSelected(selected, rowId) THEN Without(selected, rowId)
                     ELSE Append(selected, rowId)]
  /\ UNCHANGED <<configPromise, config, env, db, staged, objects, req, issued,
                 bulk, fileSizeCache, sizeCalls>>

\* the click on the header checkbox
ToggleSelectAll ==
  /\ page' = [page EXCEPT !.selectedRows =
                IF Len(page.selectedRows) = Len(page.bundlesData) THEN <<>>
                ELSE page.bundlesData]
  /\ UNCHANGED <<configPromise, config, env, db, staged, objects, req, issued,
                 bulk, fileSizeCache, sizeCalls>>

\* the bundles query answers after a change of filter or page, or a refetch
BundlesDataChanges ==
  /\ \E data \in DisplayLists :
       /\ data # page.bundlesData
       /\ page' = [page EXCEPT !.bundlesData = data,
                               !.selectedRows = KeepSelection(@, data)]
  /\ UNCHANGED <<configPromise, config, env, db, staged, objects, req, issued,
                 bulk, fileSizeCache, sizeCalls>>

\* the click on the toolbar's delete button runs handleBulkDelete
ClickBulkDelete ==
  /\ BulkButtonEnabled
  /\ \E confirmed \in BOOLEAN : bulk' = BulkStart(page.selectedRows, confirmed)
  /\ UNCHANGED <<configPromise, config, env, db, staged, objects, req, issued,
                 fileSizeCache, sizeCalls, page>>

(***************************************************************************)
(* The api module: bulkDeleteBundles and bulkDeleteFromR2 called directly  *)
(***************************************************************************)
\* !bundleIds || bundleIds.length === 0
BulkDeleteBundlesRejects(bundleIds) == Len(bundleIds) = 0

BulkDeleteBundlesRejection ==
  [success |-> FALSE, error |-> <<"Khong co bundle nao duoc chon de xoa">>]

\* !keys || keys.length === 0
BulkDeleteFromR2Rejects(keys) == Len(keys) = 0

BulkDeleteFromR2Rejection == [success |-> FALSE, error |-> <<"Danh sach keys trong">>]

CallBulkDeleteBundles ==
  /\ bulk.pc = "idle"
  /\ \E bundleIds \in Selections :
       bulk' = IF BulkDeleteBundlesRejects(bundleIds)
               THEN [IdleBulk EXCEPT !.pc = "done", !.direct = "bulkDeleteBundles",
                                     !.r1Result = BulkDeleteBundlesRejection]
               ELSE [IdleBulk EXCEPT !.pc = "d1", !.direct = "bulkDeleteBundles",
                                     !.selected = bundleIds,
                                     !.inflight = {"d1"}, !.order = <<<<"d1", 1>>>>]
  /\ UNCHANGED <<configPromise, config, env, db, staged, objects, req, issued,
                 fileSizeCache, sizeCalls, page>>

CallBulkDeleteFromR2 ==
  /\ bulk.pc = "idle"
  /\ \E keys \in KeyLists :
       IF BulkDeleteFromR2Rejects(keys)
       THEN /\ bulk' = [IdleBulk EXCEPT !.pc = "done", !.direct = "bulkDeleteFromR2",
                                        !.r2Result = BulkDeleteFromR2Rejection]
            /\ req' = req
       ELSE /\ bulk' = [IdleBulk EXCEPT !.pc = "batch", !.direct = "bulkDeleteFromR2",
                                        !.inflight = {"batch"}]
            /\ req' = [req EXCEPT !["r1"] =
                         R2ObjectsBegin([isArray |-> TRUE, items |-> keys], env.r2)]
  /\ UNCHANGED <<configPromise, config, env, db, staged, objects, issued,
                 fileSizeCache, sizeCalls, page>>

(***************************************************************************)
(* The api module: getFileSizes                                            *)
(***************************************************************************)
Callers == {"c1", "c2"}

\* the id lists the page asks sizes for
IdLists == {<<B1>>, <<B10>>, <<B1, B10>>}

\* the sizes an object may have when it is listed
ObjectSizes == {1, 2}

\* fileSizeCache[id] || 0
CacheGet(cache, id) == IF id \in DOMAIN cache THEN cache[id] ELSE 0

\* bundleIds.filter((id) => !fileSizeCache[id])
UncachedIds(cache, ids) == SelectSeq(ids, LAMBDA id : CacheGet(cache, id) = 0)

\* one getFileSizes call: unresolved is the ids without a cache entry when
\* the call began, fetched the id lists it sent to /rpc/bundle-sizes
IdleSizeCall ==
  [pc |-> "idle", ids |-> <<>>, unresolved |-> <<>>, fetched |-> <<>>,
   fetchOk |-> FALSE, result |-> Empty, made |-> 0]

\* bundleIds.forEach((id) => fileSizes[id] = fileSizeCache[id] || 0)
SizesFromCache(cache, ids) == [id \in Range(ids) |-> CacheGet(cache, id)]

\* POST /bundle-sizes: the first listed object under `${bundleId}/` gives
\* the size, 0 when there is none; the listing must be an array
BundleSizesResponse(envr2, bundleIds, ans, sz) ==
  IF ~envr2
  THEN [status |-> 400, body |-> [success |-> FALSE, error |-> MsgMissingCf]]
  ELSE IF ans.status = "network"
  THEN [status |-> 500, body |-> [success |-> FALSE, error |-> NetworkError]]
  ELSE IF ans.status # "200"
  THEN [status |-> 500,
        body |-> [success |-> FALSE, error |-> <<"Failed to fetch R2 objects: ", ans.status>>]]
  ELSE IF ans.shape # "array"
  THEN [status |-> 500,
        body |-> [success |-> FALSE, error |-> <<"objects.find is not a function">>]]
  ELSE [status |-> 200,
        body |-> [success |-> TRUE,
                  fileSizes |-> [id \in Range(bundleIds) |->
                                   IF \E k \in ans.keys : StartsWith(k, id \o <<"/">>)
                                   THEN sz ELSE 0]]]

\* the fetch was answered, with an OK response that carries fileSizes
FetchSucceeded(http, delivered) ==
  delivered /\ http.status = 200 /\ "fileSizes" \in DOMAIN http.body

\* faulty variant: a fetch that failed counts as a size of 0 for b1
FetchFileSizesOrZero(http, delivered) ==
  IF FetchSucceeded(http, delivered) THEN http.body.fileSizes ELSE [id \in {B1} |-> 0]

\* fetchFileSizesFromR2: the fileSizes of a successful answer, or {}
FetchFileSizesFromR2(http, delivered) ==
  IF FetchSucceeded(http, delivered) THEN http.body.fileSizes ELSE Empty

GetFileSizes(c) ==
  /\ sizeCalls[c].pc \in {"idle", "done"}
  /\ sizeCalls[c].made < MaxSizeCalls
  /\ \E ids \in IdLists :
       LET uncachedIds == UncachedIds(fileSizeCache, ids)
           call == [IdleSizeCall EXCEPT
                      !.ids = ids,
                      !.made = sizeCalls[c].made + 1,
                      !.unresolved = SelectSeq(ids, LAMBDA id : id \notin DOMAIN fileSizeCache)]
       IN
       sizeCalls' = [sizeCalls EXCEPT ![c] =
                       IF Len(uncachedIds) > 0
                       THEN [call EXCEPT !.pc = "fetch", !.fetched = <<uncachedIds>>]
                       ELSE [call EXCEPT !.pc = "done",
                                         !.result = SizesFromCache(fileSizeCache, ids)]]
  /\ UNCHANGED <<configPromise, config, env, db, staged, objects, req, issued,
                 bulk, fileSizeCache, page>>

\* the fetch of getFileSizes returned: the cache takes the new sizes and the
\* call returns what the cache holds for its ids
GetFileSizesAnswer(c) ==
  /\ sizeCalls[c].pc = "fetch"
  /\ \E http \in {BundleSizesResponse(env.r2, sizeCalls[c].fetched[1], ans, sz) :
                     ans \in CfListAnswers(objects, <<>>), sz \in ObjectSizes},
        delivered \in BOOLEAN :
       LET newSizes == FetchFileSizesFromR2(http, delivered)
           cache == Merge(fileSizeCache, newSizes)
       IN
       /\ fileSizeCache' = cache
       /\ sizeCalls' = [sizeCalls EXCEPT ![c] =
                          [@ EXCEPT !.pc = "done",
                                    !.fetchOk = FetchSucceeded(http, delivered),
                                    !.result = SizesFromCache(cache, sizeCalls[c].ids)]]
  /\ UNCHANGED <<configPromise, config, env, db, staged, objects, req, issued, bulk, page>>

(***************************************************************************)
(* POST /bundles/:bundleId/delete-d1, /bundle-sizes, /bundles/bulk-delete  *)
(* as requests of their own                                                *)
(***************************************************************************)
MsgMissingD1 == <<"Thieu thong tin cau hinh Cloudflare D1">>
MsgBadBundleIds == <<"Danh sach bundleIds khong hop le hoac trong">>

\* faulty variant: the query is sent before the settings are looked at
DeleteD1CallsBeforeCheck(envd1, ans) == Logged(<<"d1.query">>, [ok |-> ans # "network"])

\* the backend calls of delete-d1: none without the D1 settings
DeleteD1Calls(envd1, ans) ==
  IF envd1 THEN Logged(<<"d1.query">>, [ok |-> ans # "network"]) ELSE <<>>

DeleteD1(s) ==
  /\ req[s].pc \in {"idle", "done"}
  /\ issued < MaxRequests
  /\ issued' = issued + 1
  /\ \E id \in BundleIds, ans \in D1Answers, delivered \in BOOLEAN :
       /\ db' = DeleteD1Effect(db, id, env.d1, ans)
       /\ req' = [req EXCEPT ![s] =
                    Respond([IdleReq EXCEPT !.op = "deleted1", !.id = id,
                                            !.calls = DeleteD1Calls(env.d1, ans)],
                            DeleteD1Response(env.d1, ans), delivered)]
  /\ UNCHANGED <<browserVars, configPromise, config, env, staged, objects>>

BundleSizes(s) ==
  /\ \E bundleIds \in IdLists, ans \in CfListAnswers(objects, <<>>), sz \in ObjectSizes :
       OneStep(s, "bundlesizes", B1,
               IF env.r2 THEN Logged(<<"cf.list">>, [ok |-> ans.status # "network"]) ELSE <<>>,
               IF env.r2 THEN Some([call |-> "cf.list", res |-> ans]) ELSE None,
               BundleSizesResponse(env.r2, bundleIds, ans, sz))
  /\ UNCHANGED objects

\* the body of a bulk-delete request: bundleIds is an array, or is not
BulkDeleteBodies ==
  {[isArray |-> TRUE, items |-> q] : q \in Selections}
  \cup {[isArray |-> FALSE, items |-> <<>>]}

\* faulty variant: no list is turned away
BulkDeleteRejectsNothing(body) == FALSE

\* !Array.isArray(bundleIds) || bundleIds.length === 0
BulkDeleteRejects(body) == IF body.isArray THEN Len(body.items) = 0 ELSE TRUE

BulkDeleteCatch(text) == [status |-> 500, body |-> [success |-> FALSE, error |-> text]]

BulkDeleteSuccess(bundleIds) ==
  [status |-> 200,
   body |-> [success |-> TRUE,
             message |-> <<"Da xoa ", Len(bundleIds), " bundles tu D1 database">>,
             r2Result |-> None]]

\* the listed keys under `${bundleId}/` of one of the bundles
BulkDeleteTargets(ans, bundleIds) ==
  {k \in ListedObjects(ans) : \E i \in Range(bundleIds) : StartsWith(k, i \o <<"/">>)}

\* the handler from its first line to its response: the calls it made, the
\* rows the D1 statement deleted and the response
BulkDeleteOutcome(body, e, d1, ans, relThrows) ==
  LET none == {}
      gone == Range(body.items)
  IN
  IF BulkDeleteRejects(body)
  THEN [calls |-> <<>>, deleted |-> none,
        http |-> [status |-> 400, body |-> [success |-> FALSE, error |-> MsgBadBundleIds]]]
  ELSE IF ~e.d1
  THEN [calls |-> <<>>, deleted |-> none,
        http |-> [status |-> 400, body |-> [success |-> FALSE, error |-> MsgMissingD1]]]
  ELSE IF d1 = "network"
  THEN [calls |-> <<"d1.query", "throw">>, deleted |-> none,
        http |-> BulkDeleteCatch(NetworkError)]
  ELSE IF d1 # "200"
  THEN [calls |-> <<"d1.query">>, deleted |-> none,
        http |-> BulkDeleteCatch(<<"Khong the xoa bundles tu D1: ", d1>>)]
  ELSE IF ~e.r2
  THEN [calls |-> <<"d1.query">>, deleted |-> gone, http |-> BulkDeleteSuccess(body.items)]
  ELSE IF ans.status = "network"
  THEN [calls |-> <<"d1.query", "cf.list", "throw">>, deleted |-> gone,
        http |-> BulkDeleteCatch(NetworkError)]
  ELSE IF ans.status # "200"
  THEN [calls |-> <<"d1.query", "cf.list">>, deleted |-> gone,
        http |-> BulkDeleteSuccess(body.items)]
  ELSE IF BulkDeleteTargets(ans, body.items) = {}
  THEN [calls |-> <<"d1.query", "cf.list">>, deleted |-> gone,
        http |-> BulkDeleteSuccess(body.items)]
  ELSE IF relThrows
  THEN [calls |-> <<"d1.query", "cf.list", "rpc.r2.objects", "throw">>, deleted |-> gone,
        http |-> BulkDeleteCatch(<<"Only absolute URLs are supported">>)]
  ELSE [calls |-> <<"d1.query", "cf.list", "rpc.r2.objects">>, deleted |-> gone,
        http |-> BulkDeleteSuccess(body.items)]

BulkDelete(s) ==
  /\ req[s].pc \in {"idle", "done"}
  /\ issued < MaxRequests
  /\ issued' = issued + 1
  /\ \E body \in BulkDeleteBodies, d1 \in D1Answers, ans \in CfListAnswers(objects, <<>>),
        relThrows \in BOOLEAN, delivered \in BOOLEAN :
       LET out == BulkDeleteOutcome(body, env, d1, ans, relThrows) IN
       /\ db' = [i \in BundleIds |-> IF i \in out.deleted THEN Absent ELSE db[i]]
       /\ req' = [req EXCEPT ![s] =
                    Respond([IdleReq EXCEPT !.op = "bulkdelete", !.keys = body.items,
                                            !.calls = out.calls],
                            out.http, delivered)]
  /\ UNCHANGED <<browserVars, configPromise, config, env, staged, objects>>

(***************************************************************************)
(* GET /config-loaded                                                      *)
(***************************************************************************)
\* !!configPromise
ConfigLoadedResponse(promise) ==
  [status |-> 200, body |-> [configLoaded |-> promise # "null"]]

ConfigLoaded(s) ==
  /\ OneStep(s, "configloaded", B1, <<>>, None, ConfigLoadedResponse(configPromise))
  /\ UNCHANGED objects

(***************************************************************************)
(* Specification of the metadata lifecycle                                 *)
(***************************************************************************)
EnvAll == [r2 |-> TRUE, d1 |-> TRUE]

\* the state after construction, with environment e and the objects K in
\* the bucket
InitStore(e, K) ==
  /\ configPromise = "null"
  /\ config = [storage |-> "none"]
  /\ env = e
  /\ db = [i \in BundleIds |-> [enabled |-> TRUE, message |-> "m0"]]
  /\ staged = NoStaged
  /\ objects = K
  /\ req = [s \in Slots |-> IdleReq]
  /\ issued = 0
  /\ bulk = IdleBulk
  /\ fileSizeCache = Empty
  /\ sizeCalls = [c \in Callers |-> IdleSizeCall]
  /\ page = IdlePage

InitWith(e) == InitStore(e, AllKeys)

Init == InitWith(EnvAll)

Next ==
  \/ ConfigResolves
  \/ ConfigRejects
  \/ \E s \in Slots :
       \/ ConfigFailure(s)
       \/ SoftDeleteStart(s)
       \/ SoftDeleteNoStorage(s)
       \/ SoftDeleteFactoryThrows(s)
       \/ SoftDeleteStorage(s)
       \/ SoftDeleteUpdate(s)
       \/ SoftDeleteCommit(s)
       \/ DisableStart(s)
       \/ DisableUpdate(s)
       \/ DisableCommit(s)
       \/ PatchStart(s)
       \/ PatchUpdate(s)
       \/ PatchCommit(s)

Spec == Init /\ [][Next]_vars

(***************************************************************************)
(* Specification of the single-object deletes                              *)
(***************************************************************************)
EnvChoices == {EnvAll, [r2 |-> FALSE, d1 |-> TRUE]}

InitR2 == \E e \in EnvChoices : InitWith(e)

NextR2 ==
  \E s \in Slots :
    \/ R2DeleteMissingConfig(s)
    \/ R2Delete(s)
    \/ R2ObjectRejected(s)
    \/ R2Object(s)

SpecR2 == InitR2 /\ [][NextR2]_vars

(***************************************************************************)
(* Specification of the complete delete                                    *)
(***************************************************************************)
NextComplete ==
  \/ ConfigResolves
  \/ ConfigRejects
  \/ \E s \in Slots :
       \/ ConfigFailure(s)
       \/ CompleteStart(s)
       \/ CompleteUpdate(s)
       \/ CompleteCommit(s)
       \/ CompleteList(s)
       \/ CompleteBulk(s)

SpecComplete == InitR2 /\ [][NextComplete]_vars

(***************************************************************************)
(* Specification of the bulk object delete                                 *)
(***************************************************************************)
\* the requests to this endpoint are served one after the other; what a
\* request leaves in the object store is what the next one finds
NextObjects ==
  \/ R2ObjectsStart("r1")
  \/ R2ObjectsStep("r1")

SpecObjects == InitR2 /\ [][NextObjects]_vars

(***************************************************************************)
(* Specification of the console's bulk delete                              *)
(***************************************************************************)
InitBulk == \E e \in BulkEnvs : InitWith(e)

NextBulk ==
  \/ HandleBulkDelete
  \/ BulkD1Answer
  \/ BulkR2Answer
  \/ R2ObjectsStep("r1")
  \/ BulkBatchAnswer

SpecBulk == InitBulk /\ [][NextBulk]_vars

(***************************************************************************)
(* Specification of the bundles table with its bulk delete                 *)
(***************************************************************************)
\* window.location.reload(), two seconds after the success toast: the page
\* and the api module start again; what the server is doing goes on
PageReloads ==
  /\ page.reloadPending
  /\ page' = IdlePage
  /\ bulk' = IdleBulk
  /\ fileSizeCache' = Empty
  /\ sizeCalls' = [c \in Callers |-> IdleSizeCall]
  /\ UNCHANGED <<configPromise, config, env, db, staged, objects, req, issued>>

\* a run of handleBulkDelete is between its first request and its finally
BulkRunning == bulk.pc \in {"d1", "r2", "batch"}

\* the operator works on the table of a freshly loaded page, before the
\* first bulk delete, and may press the delete button at any time
NextPage ==
  \/ bulk.pc = "idle" /\ ToggleRowSelection
  \/ bulk.pc = "idle" /\ ToggleSelectAll
  \/ bulk.pc = "idle" /\ BundlesDataChanges
  \/ ClickBulkDelete
  \/ BulkD1Answer
  \/ BulkR2Answer
  \/ R2ObjectsStep("r1")
  \/ BulkBatchAnswer
  \/ PageReloads

SpecPage == Init /\ [][NextPage]_vars

\* every request that handleBulkDelete awaits settles: it is answered or
\* it fails, and the server works through the batch it received
SpecPageFair ==
  /\ SpecPage
  /\ WF_vars(BulkD1Answer)
  /\ WF_vars(BulkR2Answer)
  /\ WF_vars(R2ObjectsStep("r1"))
  /\ WF_vars(BulkBatchAnswer)

(***************************************************************************)
(* Specification of the size cache                                         *)
(***************************************************************************)
NextSizes ==
  \E c \in Callers :
    \/ GetFileSizes(c)
    \/ GetFileSizesAnswer(c)

\* the bucket holds every bundle's objects, or none of bundle b1
SizeBuckets == {AllKeys, {k \in AllKeys : ~StartsWith(k, B1 \o <<"/">>)}}

InitSizes == \E e \in EnvChoices, K \in SizeBuckets : InitStore(e, K)

SpecSizes == InitSizes /\ [][NextSizes]_vars

(***************************************************************************)
(* Specification of every handler and wrapper, one operation at a time     *)
(***************************************************************************)
\* nothing has been asked of the server yet
Pristine == issued = 0 /\ req["r1"] = IdleReq /\ bulk = IdleBulk

\* one operation in each behaviour, on a server that has served nothing
\* yet: a request to one of the handlers, or a direct call of one of the
\* api module's bulk functions
NextHandlers ==
  \/ /\ Pristine
     /\ \/ SoftDeleteStart("r1")
        \/ DisableStart("r1")
        \/ CompleteStart("r1")
        \/ R2DeleteMissingConfig("r1")
        \/ R2Delete("r1")
        \/ R2ObjectRejected("r1")
        \/ R2Object("r1")
        \/ R2ObjectsStart("r1")
        \/ DeleteD1("r1")
        \/ BundleSizes("r1")
        \/ BulkDelete("r1")
        \/ CallBulkDeleteBundles
        \/ CallBulkDeleteFromR2
  \/ ConfigResolves
  \/ ConfigRejects
  \/ ConfigFailure("r1")
  \/ SoftDeleteNoStorage("r1")
  \/ SoftDeleteFactoryThrows("r1")
  \/ SoftDeleteStorage("r1")
  \/ SoftDeleteUpdate("r1")
  \/ SoftDeleteCommit("r1")
  \/ DisableUpdate("r1")
  \/ DisableCommit("r1")
  \/ CompleteUpdate("r1")
  \/ CompleteCommit("r1")
  \/ CompleteList("r1")
  \/ CompleteBulk("r1")
  \/ R2ObjectsStep("r1")
  \/ BulkD1Answer
  \/ BulkR2Answer
  \/ BulkBatchAnswer

SpecHandlers == InitBulk /\ [][NextHandlers]_vars

(***************************************************************************)
(* Specification of disable, soft delete and complete delete together      *)
(***************************************************************************)
NextDisabling ==
  \/ ConfigResolves
  \/ ConfigRejects
  \/ \E s \in Slots :
       \/ ConfigFailure(s)
       \/ SoftDeleteStart(s)
       \/ SoftDeleteNoStorage(s)
       \/ SoftDeleteFactoryThrows(s)
       \/ SoftDeleteStorage(s)
       \/ SoftDeleteUpdate(s)
       \/ SoftDeleteCommit(s)
       \/ DisableStart(s)
       \/ DisableUpdate(s)
       \/ DisableCommit(s)
       \/ CompleteStart(s)
       \/ CompleteUpdate(s)
       \/ CompleteCommit(s)
       \/ CompleteList(s)
       \/ CompleteBulk(s)

SpecDisabling == InitR2 /\ [][NextDisabling]_vars

(***************************************************************************)
(* Specification of the configuration load and of GET /config-loaded       *)
(***************************************************************************)
NextConfig ==
  \/ ConfigResolves
  \/ ConfigRejects
  \/ \E s \in Slots :
       \/ ConfigFailure(s)
       \/ DisableStart(s)
       \/ DisableUpdate(s)
       \/ DisableCommit(s)
       \/ ConfigLoaded(s)

SpecConfig == Init /\ [][NextConfig]_vars

(***************************************************************************)
(* r2Storage.uploadBundle                                                  *)
(***************************************************************************)
BucketName == <<"bucket">>

\* the bundle paths handed to uploadBundle
BundlePaths ==
  {<<"bundle.zip">>, <<"dist", "/", "bundle.zip">>, <<"dist", "/", "out", "/", "bundle">>}

\* path.basename of a path that does not end in a separator
Basename(p) ==
  IF \E k \in 1..Len(p) : p[k] = "/"
  THEN LET last == CHOOSE k \in 1..Len(p) :
                     p[k] = "/" /\ \A j \in (k + 1)..Len(p) : p[j] # "/"
       IN SubSeq(p, last + 1, Len(p))
  ELSE p

\* mime.getType(bundlePath) ?? void 0
MimeGetType(p) ==
  IF Basename(p) = <<"bundle.zip">> THEN Some(<<"application/zip">>) ELSE None

\* faulty variant: the key keeps the directories of the path
UploadObjectKeyOfPath(bundleId, bundlePath) == bundleId \o <<"/">> \o bundlePath

\* [bundleId, filename].join("/")
UploadObjectKey(bundleId, bundlePath) == bundleId \o <<"/">> \o Basename(bundlePath)

\* wrangler r2 object put: the process exits 0 with or without text on
\* stderr, execa rejects with an ExecaError, or the call throws another error
PutOutcomes ==
  {[ok |-> TRUE, stderr |-> <<>>],
   [ok |-> TRUE, stderr |-> <<"warning">>],
   [ok |-> FALSE, execa |-> TRUE, stderr |-> <<"put failed">>, stdout |-> <<>>],
   [ok |-> FALSE, execa |-> TRUE, stderr |-> <<>>, stdout |-> <<"no such bucket">>],
   [ok |-> FALSE, execa |-> FALSE, stderr |-> <<"spawn aborted">>, stdout |-> <<>>]}

\* the optional hooks argument of r2Storage
HookChoices == {"none", "returns", "throws"}

\* the try/catch around the wrangler call: what reaches the code after it
UploadPutResult(w) ==
  IF w.ok THEN IF w.stderr # <<>> THEN Fail(Err(w.stderr)) ELSE Ok
  ELSE IF w.execa THEN Fail(Err(IF w.stderr # <<>> THEN w.stderr ELSE w.stdout))
  ELSE Fail(Err(w.stderr))

\* faulty variant: the hook is called whatever the put did
UploadHookAlways(put, hook) == hook # "none"

\* hooks?.onStorageUploaded?.() is reached only after the try block
UploadHookCalled(put, hook) == put.ok /\ hook # "none"

\* the calls uploadBundle made
UploadCalls(put, hook) ==
  Logged(<<"wrangler.r2.object.put">>, put)
    \o (IF UploadHookCalled(put, hook)
        THEN Logged(<<"hooks.onStorageUploaded">>, [ok |-> hook = "returns"])
        ELSE <<>>)

\* what uploadBundle returns or throws
UploadBundleResult(bundleId, bundlePath, put, hook) ==
  IF ~put.ok THEN put
  ELSE IF hook = "throws" THEN Fail(Err(<<"hook failed">>))
  ELSE [ok |-> TRUE,
        val |-> [bucketName |-> BucketName, key |-> UploadObjectKey(bundleId, bundlePath)]]

\* uploadBundle(bundleId, bundlePath); a put that did not exit 0 may or may
\* not have stored the object
UploadBundle(s) ==
  /\ req[s].pc \in {"idle", "done"}
  /\ issued < MaxRequests
  /\ issued' = issued + 1
  /\ \E bundleId \in BundleIds, bundlePath \in BundlePaths, w \in PutOutcomes,
        hook \in HookChoices, stored \in BOOLEAN :
       LET Key == UploadObjectKey(bundleId, bundlePath)
           put == UploadPutResult(w)
       IN
       /\ w.ok => stored
       /\ objects' = IF stored THEN objects \cup {Key} ELSE objects
       /\ req' = [req EXCEPT ![s] =
                    [IdleReq EXCEPT
                       !.op = "upload", !.id = bundleId, !.pc = "done",
                       !.calls = UploadCalls(put, hook),
                       !.backend = Some([call |-> "wrangler.r2.object.put",
                                         target |-> BucketName \o <<"/">> \o Key,
                                         file |-> bundlePath,
                                         contentType |-> MimeGetType(bundlePath),
                                         hook |-> hook, res |-> w]),
                       !.client = UploadBundleResult(bundleId, bundlePath, put, hook)]]
  /\ UNCHANGED <<browserVars, configPromise, config, env, db, staged>>

\* the uploads of one deployment follow one another
NextUpload == UploadBundle("r1")

\* the bucket is empty before the first upload
SpecUpload == InitStore(EnvAll, {}) /\ [][NextUpload]_vars

(***************************************************************************)
(* Specification of the four handlers that mutate metadata                 *)
(***************************************************************************)
\* slot r1 serves requests to any of the four handlers while slot r2 serves
\* PATCH requests, which stage and commit in the same database plugin
NextMutations ==
  \/ ConfigResolves
  \/ ConfigRejects
  \/ \E s \in Slots :
       \/ ConfigFailure(s)
       \/ PatchStart(s)
       \/ PatchUpdate(s)
       \/ PatchCommit(s)
  \/ SoftDeleteStart("r1")
  \/ SoftDeleteNoStorage("r1")
  \/ SoftDeleteFactoryThrows("r1")
  \/ SoftDeleteStorage("r1")
  \/ SoftDeleteUpdate("r1")
  \/ SoftDeleteCommit("r1")
  \/ DisableStart("r1")
  \/ DisableUpdate("r1")
  \/ DisableCommit("r1")
  \/ CompleteStart("r1")
  \/ CompleteUpdate("r1")
  \/ CompleteCommit("r1")
  \/ CompleteList("r1")
  \/ CompleteBulk("r1")

SpecMutations == InitR2 /\ [][NextMutations]_vars

(***************************************************************************)
(* Properties of the soft delete and of disable                            *)
(***************************************************************************)
Last(q) == q[Len(q)]

\* the request's last backend call threw
LastCallThrew(r) == Len(r.calls) >= 2 /\ Last(r.calls) = "throw"
DbCallThrew(r) ==
  /\ LastCallThrew(r)
  /\ r.calls[Len(r.calls) - 1] \in {"db.updateBundle", "db.commitBundle"}
CommitThrew(r) == LastCallThrew(r) /\ r.calls[Len(r.calls) - 1] = "db.commitBundle"
Committed(r) == Len(r.calls) >= 1 /\ Last(r.calls) = "db.commitBundle"
CallThrew(r, call) ==
  \E k \in 1..(Len(r.calls) - 1) : r.calls[k] = call /\ r.calls[k + 1] = "throw"

Has(body, f) == f \in DOMAIN body
SaysSuccess(body) == Has(body, "success") /\ body.success
SaysPartial(body) == Has(body, "partialSuccess") \/ Has(body, "storageError")

C2_PartialSuccessIffStorageError ==
  \A s \in Slots :
    (req[s].op = "delete" /\ req[s].pc = "done" /\ Committed(req[s])) =>
      LET body == req[s].http.body IN
      /\ SaysSuccess(body)
      /\ req[s].storageError.some <=>
           /\ Has(body, "partialSuccess") /\ body.partialSuccess
           /\ Has(body, "storageError") /\ body.storageError = req[s].storageError.val
      /\ ~req[s].storageError.some => ~SaysPartial(body)

\* C3: a soft delete whose updateBundle or commitBundle threw answers
\* success: false with an error, and neither success nor partial success
C3_DbFailureIsHardFailure ==
  \A s \in Slots :
    (req[s].op = "delete" /\ req[s].pc = "done" /\ DbCallThrew(req[s])) =>
      LET body == req[s].http.body IN
      /\ Has(body, "success") /\ ~body.success
      /\ Has(body, "error")
      /\ ~SaysPartial(body)
      /\ req[s].http.status = 500

\* C3 witness: the commit threw after the storage step had failed too
C3_Witness ==
  \E s \in Slots :
    /\ req[s].op = "delete" /\ req[s].pc = "done"
    /\ CommitThrew(req[s])
    /\ req[s].storageError.some

\* C4 (as claimed): once an operation has reported the failure of its
\* commit, the record it staged a mutation for is not changed by the commit
\* of a later request that is about another record
C4_FailedMutationNeverPersisted ==
  [][\A s, t \in Slots :
       (/\ req[s].pc = "done" /\ CommitThrew(req[s]) /\ ~SaysSuccess(req[s].http.body)
        /\ req'[s] = req[s]
        /\ req[t].id # req[s].id /\ req[t].pc = "commit" /\ req'[t].pc = "done")
         => db'[req[s].id] = db[req[s].id]]_vars

\* C5 (as claimed): once a soft delete whose storage step ran without error
\* has reported full success, no object is left under {id}/bundle.zip
C5_FullSuccessMeansObjectGone ==
  \A s \in Slots :
    (/\ req[s].op = "delete" /\ req[s].pc = "done"
     /\ Includes(req[s].calls, "storage.deleteBundle")
     /\ SaysSuccess(req[s].http.body) /\ ~SaysPartial(req[s].http.body))
      => UploadKey(req[s].id, "bundle.zip") \notin objects

NotFoundAnswer(r) ==
  /\ r.backend.some
  /\ ~r.backend.val.res.ok
  /\ r.backend.val.res.err = Err(BundleNotFound)

\* C6: when the storage step met "not found", deleteBundle of the storage
\* plugin returned normally, the handler kept no storageError, and the answer
\* carries neither storageError nor partialSuccess
C6_NotFoundIsSuccess ==
  \A s \in Slots :
    (req[s].op = "delete" /\ NotFoundAnswer(req[s])) =>
      /\ ~req[s].storageError.some
      /\ req[s].backend.val.call = "wrangler" => ~CallThrew(req[s], "storage.deleteBundle")
      /\ (req[s].pc = "done" /\ Committed(req[s])) =>
           /\ ~SaysPartial(req[s].http.body)
           /\ SaysSuccess(req[s].http.body)

\* C6 witness: wrangler answered "Bundle Not Found" and the soft delete
\* reported full success
C6_Witness ==
  \E s \in Slots :
    /\ req[s].op = "delete" /\ req[s].pc = "done"
    /\ NotFoundAnswer(req[s]) /\ req[s].backend.val.call = "wrangler"
    /\ Committed(req[s])

\* C8 (as claimed, and already for a disable that runs while no other
\* request is in flight): no step of the disable handler calls the object
\* store or changes an object, and none changes a record other than id or a
\* field other than enabled
C8_DisableIsMetadataOnly ==
  [][\A s \in Slots :
       (/\ req[s].op = "disable" /\ req[s].pc \in {"config", "commit"}
        /\ req'[s].pc # req[s].pc
        /\ \A t \in Slots \ {s} : req[t].pc \in {"idle", "done"}) =>
         /\ objects' = objects
         /\ \A k \in 1..Len(req'[s].calls) :
              req'[s].calls[k] \in {"db.updateBundle", "db.commitBundle", "throw"}
         /\ \A i \in BundleIds :
              db'[i] # db[i] =>
                /\ i = req[s].id
                /\ \A f \in DOMAIN db[i] \ {"enabled"} : db'[i][f] = db[i][f]]_vars

\* C9 (as claimed): what disableBundle / deleteBundle return has
\* success: true only if this request's commitBundle succeeded
C9_ClientSuccessMeansCommitted ==
  \A s \in Slots :
    (/\ req[s].op \in {"delete", "disable"} /\ req[s].pc = "done"
     /\ SaysSuccess(req[s].client))
      => Committed(req[s])

(***************************************************************************)
(* Properties of the object deletes and of the complete delete             *)
(***************************************************************************)
\* the backend was reached and served the request: it deleted the object
\* or said that there is none
Served(r) == r.backend.some /\ r.backend.val.res.status \in {"200", "404"}

\* C7 (as claimed): a single-object delete that the backend served reports
\* success, also the second one for a key, which the backend answers with
\* "not found"
C7_SingleDeleteIsIdempotent ==
  \A s \in Slots :
    (req[s].op \in {"r2delete", "r2object"} /\ req[s].pc = "done" /\ Served(req[s]))
      => SaysSuccess(req[s].http.body)

UnderPrefix(objs, id) == {k \in objs : StartsWith(k, id \o <<"/">>)}

\* C10 (as claimed): a complete delete with storage configured, whose
\* metadata calls succeeded and whose listing was answered 200 with N >= 1
\* objects under {id}/, reports deletedObjects = totalObjects = N and leaves
\* no object under {id}/
C10_CompleteDeleteRemovesAll ==
  \A s \in Slots :
    LET r == req[s]
        n == Cardinality(UnderPrefix(r.backend.val.res.keys, r.id))
    IN
    (/\ r.op = "complete" /\ r.pc = "done"
     /\ r.backend.some /\ r.backend.val.res.status = "200"
     /\ n >= 1)
      => /\ UnderPrefix(objects, r.id) = {}
         /\ SaysSuccess(r.http.body)
         /\ Has(r.http.body, "r2Result")
         /\ Field(r.http.body.r2Result, "deletedObjects") = n
         /\ Field(r.http.body.r2Result, "totalObjects") = n

\* the named call was made and returned
CallReturned(r, call) ==
  \E k \in 1..Len(r.calls) :
    r.calls[k] = call /\ (k = Len(r.calls) \/ r.calls[k + 1] # "throw")

StorageCalls == {"cf.list", "rpc.r2.objects"}

\* C11: every object-store request of a complete delete comes after its
\* commitBundle returned, with the record disabled; when the storage
\* settings are missing the request issues no object-store request, and
\* once its commit returned the record is disabled and the answer is
\* success: true with the message that says the cleanup was skipped
C11_CommitBeforeStorage ==
  \A s \in Slots :
    req[s].op = "complete" =>
      LET r == req[s] IN
      /\ \A k \in 1..Len(r.calls) :
           r.calls[k] \in StorageCalls =>
             /\ \E j \in 1..(k - 1) : r.calls[j] = "db.commitBundle" /\ r.calls[j + 1] # "throw"
             /\ ~db[r.id].enabled
      /\ ~env.r2 =>
           /\ \A k \in 1..Len(r.calls) : r.calls[k] \notin StorageCalls
           /\ ~r.backend.some
           /\ (r.pc = "done" /\ CallReturned(r, "db.commitBundle")) =>
                /\ ~db[r.id].enabled
                /\ r.http.status = 200
                /\ r.http.body = [success |-> TRUE, message |-> MsgCompleteSkipped]

\* C11 witness: a complete delete ended, committed, without storage settings
C11_Witness ==
  \E s \in Slots :
    /\ req[s].op = "complete" /\ req[s].pc = "done"
    /\ ~env.r2
    /\ Committed(req[s])
    /\ ~db[req[s].id].enabled

\* C12 (as claimed): a complete delete whose commitBundle returned answers
\* success: true, however the listing or the bulk-delete call failed
C12_StorageFailureKeepsSuccess ==
  \A s \in Slots :
    (/\ req[s].op = "complete" /\ req[s].pc = "done"
     /\ CallReturned(req[s], "db.commitBundle"))
      => SaysSuccess(req[s].http.body)

\* C13 (as claimed): the keys a complete delete of id asks to delete all
\* start with {id}/
C13_OnlyOwnObjectsRequested ==
  \A s \in Slots :
    (req[s].op = "complete" /\ req[s].pc \in {"bulk", "done"}) =>
      \A k \in Range(req[s].keys) : StartsWith(k, req[s].id \o <<"/">>)

\* C14 (as claimed): what a complete delete takes from a listing that was
\* answered 200 is exactly the set of objects stored under {id}/, also when
\* the backend answered with a truncated first page
C14_ListingIsPrefixComplete ==
  \A s \in Slots :
    (/\ req[s].op = "complete" /\ req[s].pc \in {"bulk", "done"}
     /\ req[s].backend.some /\ req[s].backend.val.res.status = "200")
      => Range(req[s].keys) = UnderPrefix(objects, req[s].id)

(***************************************************************************)
(* Properties of the bulk object delete                                    *)
(***************************************************************************)
SuccessCount(results) == Cardinality({k \in 1..Len(results) : results[k].success})

\* C15: with settings present and K >= 1 keys, the keys sent to the object
\* store are the input keys in input order, one request each, whatever the
\* earlier answers were; the results list follows the input order; and the
\* response has totalObjects = K, K results, deletedObjects = the number of
\* successful entries, and success exactly when deletedObjects > 0
C15_BulkObjectDeleteAccounts ==
  \A s \in Slots :
    (req[s].op = "r2objects" /\ env.r2 /\ Len(req[s].keys) >= 1) =>
      LET r == req[s]
          K == Len(r.keys)
      IN
      /\ Len(r.sent) <= K
      /\ r.sent = SubSeq(r.keys, 1, Len(r.sent))
      /\ Len(r.results) = Len(r.sent)
      /\ \A k \in 1..Len(r.results) : r.results[k].key = r.keys[k]
      /\ r.pc = "loop" => Len(r.sent) < K
      /\ r.pc = "done" =>
           /\ r.sent = r.keys
           /\ r.http.body.totalObjects = K
           /\ r.http.body.results = r.results
           /\ Len(r.http.body.results) = K
           /\ r.http.body.deletedObjects = SuccessCount(r.results)
           /\ r.http.body.deletedObjects \in 0..K
           /\ r.http.body.success <=> r.http.body.deletedObjects > 0

\* C15 witness: the request for the first key threw and a later key was
\* deleted all the same
C15_Witness ==
  \E s \in Slots :
    /\ req[s].op = "r2objects" /\ req[s].pc = "done"
    /\ Len(req[s].keys) = MaxKeys
    /\ Len(req[s].results) = MaxKeys
    /\ ~req[s].results[1].success
    /\ CallThrew(req[s], "cf.delete")
    /\ req[s].http.body.deletedObjects >= 1

(***************************************************************************)
(* Properties of the console's bulk delete                                 *)
(***************************************************************************)
\* position of a per-item request in the sequential order
Rank(e) == 2 * e[2] + (IF e[1] = "r2" THEN 1 ELSE 0)

\* the bulk call got past its loop
BulkLoopOver(b) == b.pc \in {"batch", "done"} /\ b.order # <<>>

\* C16: at most one request of the bulk call is in flight; the per-item
\* requests are issued in the order of the input, the storage request of an
\* item after its metadata request and the requests of the next item only
\* once the item before has its entry; and the per-item list has one entry
\* per input id, in input order, whatever failed
C16_BulkIsSequential ==
  LET b == bulk IN
  /\ Cardinality(b.inflight) <= 1
  /\ \A j, k \in 1..Len(b.order) : j < k => Rank(b.order[j]) < Rank(b.order[k])
  /\ \A k \in 1..Len(b.order) : b.order[k][2] <= Len(b.details) + 1
  /\ b.pc \in {"d1", "r2"} =>
       /\ Len(b.details) < Len(b.selected)
       /\ b.order[Len(b.order)] = <<b.pc, Len(b.details) + 1>>
  /\ Len(b.details) <= Len(b.selected)
  /\ \A k \in 1..Len(b.details) : b.details[k].bundleId = b.selected[k]
  /\ BulkLoopOver(b) =>
       /\ Len(b.details) = Len(b.selected)
       /\ b.r1Result.details = b.details

\* C16 witness: a bulk delete of a list with a repeated id went through
\* its loop with every item failing
C16_Witness ==
  /\ bulk.pc = "done"
  /\ Len(bulk.selected) = MaxSelected
  /\ bulk.selected[1] = bulk.selected[MaxSelected]
  /\ Len(bulk.details) = MaxSelected
  /\ \A k \in 1..Len(bulk.details) : ~OptTrue(bulk.details[k].success)

\* C17 (as claimed): the success bulkDeleteBundles returns is true exactly
\* when the metadata success count or the storage success count is nonzero
C17_LenientOrSuccess ==
  BulkLoopOver(bulk) =>
    (bulk.r1Result.success <=> (bulk.d1Success > 0 \/ bulk.r2Success > 0))

\* C18 (as claimed): after the loop the metadata success count is the number
\* of ids whose metadata delete answered success and the storage success
\* count the number of ids whose storage delete answered success; with
\* n ids, every metadata delete answering success and exactly one storage
\* delete failing, the counts are n and n - 1 and the overall success is true
C18_CountsMatchOutcomes ==
  BulkLoopOver(bulk) =>
    LET n == Len(bulk.selected)
        d1Said == Cardinality({k \in 1..n : bulk.said[k].d1})
        r2Said == Cardinality({k \in 1..n : bulk.said[k].r2})
    IN
    /\ bulk.d1Success = d1Said
    /\ bulk.r2Success = r2Said
    /\ bulk.d1Success \in 0..n /\ bulk.r2Success \in 0..n
    /\ (n = MaxSelected /\ d1Said = n /\ r2Said = n - 1) =>
         /\ bulk.d1Success = n /\ bulk.r2Success = n - 1
         /\ bulk.r1Result.success

\* C19 (as claimed): a console bulk delete sends no object-store delete
\* request per item, and the batched call that follows the loop sends one
\* request per derived key
C19_OneBatchedStorageDelete ==
  /\ bulk.perItem = <<>>
  /\ (bulk.pc = "done" /\ bulk.order # <<>> /\ env.r2) =>
       req["r1"].sent = BundleKeys(bulk.selected)

(***************************************************************************)
(* Properties of the size cache                                            *)
(***************************************************************************)
\* C20 (as claimed): a getFileSizes call whose ids all had a cache entry
\* sends no request; any other call sends exactly one, for exactly the ids
\* that had none; and after a fetch that succeeded every requested id has a
\* cache entry
C20_OneFetchForUnresolvedIds ==
  \A c \in Callers :
    LET call == sizeCalls[c] IN
    call.pc \in {"fetch", "done"} =>
      /\ call.unresolved = <<>> => call.fetched = <<>>
      /\ call.unresolved # <<>> => call.fetched = <<call.unresolved>>
      /\ (call.pc = "done" /\ call.fetchOk) =>
           \A id \in Range(call.ids) : id \in DOMAIN fileSizeCache

\* C21 (as claimed): when a getFileSizes([id]) call whose fetch succeeded has
\* returned and the cache still holds the value it returned, the next
\* getFileSizes([id]) call of the same caller sends no request and returns
\* the same value, a size of 0 included
C21_SecondCallServedFromCache ==
  [][\A c \in Callers : \A id \in BundleIds :
       LET call == sizeCalls[c]
           next == sizeCalls'[c]
       IN
       (/\ call.pc = "done" /\ call.ids = <<id>> /\ call.fetchOk
        /\ id \in DOMAIN fileSizeCache /\ fileSizeCache[id] = call.result[id]
        /\ next.made = call.made + 1 /\ next.ids = <<id>>) =>
         (next.pc = "done" /\ next.fetched = <<>> /\ next.result = call.result)]_vars

\* C22 (as claimed): a size the cache holds for an id, here one that is not
\* 0, is never replaced by a different one, whichever of the concurrent
\* getFileSizes calls that missed on the id is answered last
C22_RecordedSizeIsFinal ==
  [][\A id \in DOMAIN fileSizeCache :
       fileSizeCache[id] # 0 => fileSizeCache'[id] = fileSizeCache[id]]_vars

\* C23 (as claimed): a getFileSizes call that has returned gives a mapping
\* whose keys are exactly the requested ids, each to a non-negative number;
\* and an id it fetched with success maps to a size of the object when the
\* bucket holds an object under `${id}/`, and to 0 when it holds none
C23_SizesOfRequestedIds ==
  \A c \in Callers :
    LET call == sizeCalls[c] IN
    call.pc = "done" =>
      /\ DOMAIN call.result = Range(call.ids)
      /\ \A id \in Range(call.ids) : call.result[id] \in Nat
      /\ (call.fetchOk /\ call.fetched # <<>>) =>
           \A id \in Range(call.fetched[1]) :
             IF \E k \in objects : StartsWith(k, id \o <<"/">>)
             THEN call.result[id] \in ObjectSizes
             ELSE call.result[id] = 0

(***************************************************************************)
(* Properties of what the console tells the operator                       *)
(***************************************************************************)
\* C30 (as claimed): when handleBulkDelete has announced that the N selected
\* bundles were deleted, and cleared the selection, every selected bundle's
\* row is gone from the metadata store and its bundle.zip from the bucket
C30_SuccessToastMeansAllDeleted ==
  (bulk.pc = "done" /\ bulk.toast = "success") =>
    \A k \in 1..Len(bulk.selected) :
      /\ db[bulk.selected[k]] = Absent
      /\ DefaultObjectKey(bulk.selected[k]) \notin objects

(***************************************************************************)
(* Properties of the handlers' guards and boundaries                       *)
(***************************************************************************)
ConfigErrors == {MsgMissingR2, MsgMissingCf, MsgMissingD1}

\* the request ended with the error that names missing settings
ReportsMissingConfig(r) ==
  r.pc = "done" /\ Has(r.http.body, "error") /\ r.http.body.error \in ConfigErrors

\* the complete delete ended with the message that names missing settings
ReportsSkipped(r) ==
  /\ r.pc = "done" /\ r.op = "complete"
  /\ Has(r.http.body, "message") /\ r.http.body.message = MsgCompleteSkipped

C25_EmptyListRejectedFirst ==
  [][/\ \A s \in Slots :
          (/\ req[s].pc \in {"idle", "done"} /\ req'[s] # req[s]
           /\ req'[s].op \in {"r2objects", "bulkdelete"}
           /\ req'[s].keys = <<>>) =>
            /\ req'[s].pc = "done"
            /\ req'[s].http.status = 400
            /\ Has(req'[s].http.body, "success") /\ ~req'[s].http.body.success
            /\ Has(req'[s].http.body, "error")
            /\ req'[s].calls = <<>>
            /\ UNCHANGED <<db, staged, objects, fileSizeCache>>
     /\ (/\ bulk.pc = "idle" /\ bulk'.direct = "bulkDeleteBundles"
         /\ bulk'.selected = <<>>) =>
           /\ bulk'.pc = "done"
           /\ Has(bulk'.r1Result, "success") /\ ~bulk'.r1Result.success
           /\ Has(bulk'.r1Result, "error")
           /\ bulk'.order = <<>>
           /\ UNCHANGED <<req, db, staged, objects, fileSizeCache>>
     /\ (/\ bulk.pc = "idle" /\ bulk'.direct = "bulkDeleteFromR2"
         /\ req'["r1"].keys = <<>>) =>
           /\ bulk'.pc = "done"
           /\ Has(bulk'.r2Result, "success") /\ ~bulk'.r2Result.success
           /\ Has(bulk'.r2Result, "error")
           /\ UNCHANGED <<req, db, staged, objects, fileSizeCache>>]_vars

\* C25 witness: bulk-delete turned a body without an array away
C25_Witness ==
  /\ req["r1"].op = "bulkdelete" /\ req["r1"].pc = "done"
  /\ req["r1"].keys = <<>>
  /\ req["r1"].http.body.error = MsgBadBundleIds

\* a result object, and not an exception
Structured(x) == (Has(x, "success") \/ Has(x, "error")) /\ ~Has(x, "isError")

\* C26: every request to the disable, soft delete, complete delete,
\* delete-d1, r2/delete and bulk-delete handlers ends with a status and a
\* result object, and deleteBundle, disableBundle, completeDeleteBundle,
\* deleteD1Bundle, bulkDeleteBundles and bulkDeleteFromR2 return a result
\* object, whatever the backends and the configuration load did
C26_NoExceptionAcrossBoundary ==
  /\ \A s \in Slots :
       req[s].pc = "done" =>
         /\ req[s].http.status \in {200, 400, 500}
         /\ Structured(req[s].http.body)
         /\ req[s].op \in {"delete", "disable", "complete"} =>
              /\ Structured(req[s].client)
              /\ Has(req[s].client, "success")
  /\ \A k \in 1..Len(bulk.details) : Has(bulk.details[k], "success")
  /\ (bulk.pc = "done" /\ bulk.direct = "bulkDeleteBundles") => Structured(bulk.r1Result)
  /\ (bulk.pc = "done" /\ bulk.direct = "bulkDeleteFromR2") => Structured(bulk.r2Result)

\* C26 witness: the configuration load failed and the soft delete answered
C26_Witness ==
  /\ req["r1"].op = "delete" /\ req["r1"].pc = "done"
  /\ configPromise = "rejected"
  /\ req["r1"].http.status = 500

(***************************************************************************)
(* Properties of disable, soft delete and complete delete together         *)
(***************************************************************************)
\* C27: no step of a disable, soft delete or complete delete removes a
\* metadata row, changes a field other than enabled, or turns enabled from
\* false to true
C27_OnlyEverDisables ==
  [][\A i \in BundleIds :
       /\ DOMAIN db'[i] = DOMAIN db[i]
       /\ \A f \in DOMAIN db[i] \ {"enabled"} : db'[i][f] = db[i][f]
       /\ ~db[i].enabled => ~db'[i].enabled]_vars

\* C27 witness: a disable and a complete delete of the same record have
\* both committed
C27_Witness ==
  /\ req["r1"].op = "disable" /\ req["r1"].pc = "done" /\ Committed(req["r1"])
  /\ req["r2"].op = "complete" /\ req["r2"].pc = "done"
  /\ CallReturned(req["r2"], "db.commitBundle")
  /\ req["r1"].id = req["r2"].id
  /\ db[req["r1"].id] = [enabled |-> FALSE, message |-> "m0"]

\* C28: when a disable or soft delete of a record has committed, the record
\* is disabled and the request answered success, also while another disable
\* or soft delete of the same record is between its update and its commit,
\* and also after that one has committed in its turn
C28_ConcurrentDisablesBothSucceed ==
  \A s \in Slots :
    (/\ req[s].op \in {"delete", "disable"} /\ req[s].pc = "done"
     /\ Committed(req[s])) =>
      /\ ~db[req[s].id].enabled
      /\ SaysSuccess(req[s].http.body)
      /\ req[s].http.status = 200

\* C28 witness: the soft delete committed while a disable of the same record
\* had staged its update, which that commit flushed
C28_Witness ==
  /\ req["r1"].op = "delete" /\ req["r1"].pc = "done" /\ Committed(req["r1"])
  /\ req["r2"].op = "disable" /\ req["r2"].pc = "commit"
  /\ req["r2"].id = req["r1"].id
  /\ staged[req["r1"].id] = Empty

\* the storage step of the request reached wrangler, which deleted the
\* object or said that there is none
StorageReachable(r) ==
  /\ r.backend.some /\ r.backend.val.call = "wrangler"
  /\ r.backend.val.res.ok \/ r.backend.val.res.err = Err(BundleNotFound)

\* C29: once a soft delete of a record has committed with full success, no
\* step of another soft delete of the same record changes the record or the
\* object store; and a soft delete that commits after its storage step
\* reached the store answers full success, without partialSuccess or
\* storageError, and leaves the record disabled, also when another soft
\* delete of the record had answered partialSuccess
C29_ResubmissionIsSafe ==
  [][\A s, t \in Slots :
       (/\ s # t
        /\ req[t].op = "delete" /\ req[t].pc = "done" /\ Committed(req[t])
        /\ req'[t] = req[t]
        /\ req[s].op = "delete" /\ req[s].id = req[t].id
        /\ req[s].pc \in {"config", "update", "commit"}
        /\ req'[s] # req[s]) =>
         /\ ~SaysPartial(req[t].http.body) =>
              /\ db'[req[s].id] = db[req[s].id]
              /\ objects' = objects
         /\ (/\ SaysPartial(req[t].http.body)
             /\ req'[s].pc = "done" /\ Committed(req'[s])
             /\ StorageReachable(req'[s])) =>
              /\ req'[s].http.body = [success |-> TRUE, message |-> MsgDeleted]
              /\ ~db'[req[s].id].enabled]_vars

\* C29 witness: a soft delete answered partialSuccess and another one of the
\* same record, whose storage step reached the store, answered full success
C29_Witness ==
  /\ req["r1"].op = "delete" /\ req["r1"].pc = "done"
  /\ Committed(req["r1"]) /\ SaysPartial(req["r1"].http.body)
  /\ req["r2"].op = "delete" /\ req["r2"].pc = "done"
  /\ req["r2"].id = req["r1"].id
  /\ Committed(req["r2"]) /\ StorageReachable(req["r2"])
  /\ ~SaysPartial(req["r2"].http.body)

(***************************************************************************)
(* Properties of the configuration load                                    *)
(***************************************************************************)
\* C34: the configuration load is started at most once, by the first call
\* of prepareConfig, and settles at most once; the loaded configuration
\* never changes afterwards; and a request gets past prepareConfig only
\* with the outcome of that one load: on with the plugin when it resolved,
\* into its catch block with the load's error when it rejected
C34_ConfigInitialisedOnce ==
  [][/\ configPromise' # configPromise =>
          \/ configPromise = "null" /\ configPromise' = "pending"
          \/ configPromise = "pending" /\ configPromise' \in {"resolved", "rejected"}
     /\ config' # config => configPromise = "pending" /\ configPromise' = "resolved"
     /\ \A s \in Slots :
          (req[s].pc = "config" /\ req'[s].pc # "config") =>
            \/ configPromise = "resolved" /\ (req'[s].pc = "done" => req'[s].calls # <<>>)
            \/ /\ configPromise = "rejected"
               /\ req'[s].pc = "done" /\ req'[s].calls = <<>>
               /\ req'[s].http = HandlerCatch(req[s].op, ConfigError)]_vars

\* C34 witness: two requests met the same failed load
C34_Witness ==
  /\ configPromise = "rejected"
  /\ \A s \in Slots : req[s].pc = "done" /\ req[s].http.body.error = ConfigError.text

\* C38 (as claimed): when GET /config-loaded answers configLoaded: true the
\* configuration load has resolved; it answers false before a load was
\* started, while it is pending and after it was rejected
C38_LoadedOnlyAfterSuccess ==
  [][\A s \in Slots :
       (req'[s] # req[s] /\ req'[s].op = "configloaded") =>
         (req'[s].http.body.configLoaded <=> configPromise = "resolved")]_vars

\* C35: when the fetch of a getFileSizes call fails, the cache is left as
\* it was and the call returns, for each id it asked the sizes of, what the
\* cache holds for it, which is 0 for an id without an entry; and the next
\* call of the caller for the same ids fetches again every id that still
\* has no entry
C35_FailedFetchLeavesCache ==
  [][\A c \in Callers :
       LET call == sizeCalls[c]
           next == sizeCalls'[c]
       IN
       /\ (call.pc = "fetch" /\ next.pc = "done" /\ ~next.fetchOk) =>
            /\ fileSizeCache' = fileSizeCache
            /\ \A id \in Range(call.ids) :
                 next.result[id] = IF id \in DOMAIN fileSizeCache
                                   THEN fileSizeCache[id] ELSE 0
       /\ (/\ call.pc = "done" /\ call.fetched # <<>> /\ ~call.fetchOk
           /\ next.made = call.made + 1 /\ next.ids = call.ids) =>
            \A id \in Range(call.ids) :
              id \notin DOMAIN fileSizeCache =>
                /\ next.pc = "fetch"
                /\ Includes(next.fetched[1], id)]_vars

\* C35 witness: a fetch failed and the cache has no entry for an id of the
\* call, which returned 0 for it
C35_Witness ==
  /\ sizeCalls["c1"].pc = "done" /\ sizeCalls["c1"].fetched # <<>>
  /\ ~sizeCalls["c1"].fetchOk
  /\ sizeCalls["c1"].made = 2
  /\ B1 \in Range(sizeCalls["c1"].ids) /\ B1 \notin DOMAIN fileSizeCache
  /\ sizeCalls["c1"].result[B1] = 0

(***************************************************************************)
(* Properties across the lifecycle operations                              *)
(***************************************************************************)
\* C33 (as claimed): when the per-item step of the bulk delete has removed a
\* bundle's payload object from the bucket, that bundle's metadata record is,
\* at the end of the same step, removed or disabled
C33_NoEnabledRecordWithoutPayload ==
  [][(bulk.pc = "r2" /\ Len(bulk'.said) = Len(bulk.said) + 1) =>
       LET id == bulk.selected[Len(bulk.said) + 1] IN
       (DefaultObjectKey(id) \in objects /\ DefaultObjectKey(id) \notin objects') =>
         (db'[id] = Absent \/ ~db'[id].enabled)]_vars

(***************************************************************************)
(* Update and commit in the four mutating handlers                         *)
(***************************************************************************)
MutatingOps == {"patch", "delete", "disable", "complete"}

\* C31: in PATCH, soft delete, disable and complete delete every
\* updateBundle call that returned is followed by commitBundle before any
\* other backend call and before the response; a request that staged a
\* mutation answers success only after its commitBundle returned, and a
\* commitBundle that returned leaves nothing staged
C31_UpdateAndCommitPaired ==
  [][\A s \in Slots :
       LET r == req'[s] IN
       r.op \in MutatingOps =>
         /\ \A k \in 1..Len(r.calls) :
              (r.calls[k] = "db.updateBundle" /\ (k = Len(r.calls) \/ r.calls[k + 1] # "throw")) =>
                IF k = Len(r.calls) THEN r.pc = "commit"
                ELSE r.calls[k + 1] = "db.commitBundle"
         /\ (r.pc = "done" /\ SaysSuccess(r.http.body)) =>
              /\ CallReturned(r, "db.updateBundle")
              /\ CallReturned(r, "db.commitBundle")
         /\ (Len(r.calls) > Len(req[s].calls) /\ Last(r.calls) = "db.commitBundle") =>
              /\ staged' = NoStaged
              /\ db' = Flush(db, staged)]_vars

\* C31 witness: one request of each of two different handlers has answered
\* success after its update and its commit returned
C31_Witness ==
  /\ req["r2"].op = "patch" /\ req["r1"].op \in {"delete", "complete"}
  /\ \A s \in Slots :
       /\ req[s].pc = "done" /\ SaysSuccess(req[s].http.body)
       /\ CallReturned(req[s], "db.updateBundle")
       /\ CallReturned(req[s], "db.commitBundle")

(***************************************************************************)
(* Properties of uploadBundle                                              *)
(***************************************************************************)
\* the number of times the call occurs in the log
Count(calls, call) == Cardinality({k \in 1..Len(calls) : calls[k] = call})

\* C32: uploadBundle stores the payload under {bundleId}/{basename of the
\* path} and nothing else, returns exactly that key when it returns, the key
\* lies under the prefix {bundleId}/, and a configured onStorageUploaded hook
\* is called once when the put succeeded and never when it failed
C32_UploadKeyAndHook ==
  [][\A s \in Slots :
       (req'[s] # req[s] /\ req'[s].op = "upload") =>
         LET r == req'[s]
             sent == r.backend.val
             key == UploadKey(r.id, Last(sent.file))
             putOk == sent.res.ok /\ sent.res.stderr = <<>>
         IN
         /\ StartsWith(key, r.id \o <<"/">>)
         /\ sent.target = BucketName \o <<"/">> \o key
         /\ objects' \in {objects, objects \cup {key}}
         /\ putOk => key \in objects'
         /\ r.client.ok => (putOk /\ r.client.val = [bucketName |-> BucketName, key |-> key])
         /\ Count(r.calls, "hooks.onStorageUploaded")
              = (IF putOk /\ sent.hook # "none" THEN 1 ELSE 0)
         /\ (putOk /\ sent.hook # "throws") => r.client.ok]_vars

\* C32 witness: an upload from a path with directories stored the object,
\* called the hook once and returned the key, after an earlier upload
C32_Witness ==
  /\ issued > 1
  /\ req["r1"].op = "upload" /\ req["r1"].client.ok
  /\ Len(req["r1"].backend.val.file) > 1
  /\ req["r1"].client.val.key \in objects
  /\ req["r1"].client.val.key = UploadKey(req["r1"].id, Last(req["r1"].backend.val.file))
  /\ Count(req["r1"].calls, "hooks.onStorageUploaded") = 1

(***************************************************************************)
(* Properties of the bundles table                                         *)
(***************************************************************************)
\* C36 (as claimed): the selection holds no id twice and only ids of the
\* bundles on display, so the header checkbox is checked exactly when some
\* bundle is displayed and every displayed bundle is selected, and a bulk
\* delete that starts targets only bundles on display
C36_SelectionWithinDisplayed ==
  [][/\ \A j, k \in 1..Len(page'.selectedRows) :
          j # k => page'.selectedRows[j] # page'.selectedRows[k]
     /\ Range(page'.selectedRows) \subseteq Range(page'.bundlesData)
     /\ HeaderChecked' <=>
          (page'.bundlesData # <<>> /\ Range(page'.bundlesData) \subseteq Range(page'.selectedRows))
     /\ (~BulkRunning /\ BulkRunning') =>
          Range(bulk'.selected) \subseteq Range(page'.bundlesData)]_vars

\* C37: isDeleting is true exactly while a confirmed handleBulkDelete is
\* running, no run starts while one is running or the flag is set, and
\* whenever the flag is set it is released again
C37_BusyFlagReleased ==
  /\ [](bulk.isDeleting <=> BulkRunning)
  /\ [][(bulk' # bulk /\ bulk'.pc = "d1" /\ bulk'.said = <<>>) =>
          (~bulk.isDeleting /\ ~BulkRunning)]_vars
  /\ (bulk.isDeleting ~> ~bulk.isDeleting)

\* C37 witness: a confirmed run over two bundles has ended with the error
\* toast and the flag released
C37_Witness ==
  /\ bulk.pc = "done" /\ bulk.toast = "error"
  /\ Len(bulk.selected) = 2 /\ Len(bulk.details) = 2
  /\ req["r1"].pc = "done"
  /\ ~bulk.isDeleting

====
